---- MODULE Spec2Model ----
(***************************************************************************)
(* Backup orchestration and retention of qyl-hf-backup.                    *)
(*                                                                         *)
(* Three script families are modelled, selected by the variable `variant`: *)
(*   "hf"      multi_accounts_backup.py running hf_dataset_backup.py       *)
(*   "db"      multi_db_backup.py running db_backup.py                     *)
(*   "project" simple_backup.py (sequential main, backup_project)          *)
(*                                                                         *)
(* File names are sequences of character codes (ASCII), so that            *)
(* str.startswith, str.endswith and list.sort() are what Python computes.  *)
(***************************************************************************)
EXTENDS Integers, Sequences, FiniteSets, TLC

(***************************************************************************)
(* Bounds of the model.                                                    *)
(***************************************************************************)
\* old artifacts of the initial remote listing carry timestamps 0..MaxOld-1
MaxOld == 2
\* at most MaxInit names in the initial remote listing of the destination
MaxInit == 2
\* max_backups ranges over 1..MaxKeep
MaxKeep == 2
\* at most MaxJobs tasks in a run
MaxJobs == 2
\* --parallel ranges over 1..MaxPar
MaxPar == 2
\* a destination path has at most MaxDepth components below the root
MaxDepth == 3
\* the configuration file has at most MaxSections target sections
MaxSections == 2
\* the datasets key of an account lists at most MaxDatasets entries
MaxDatasets == 2

(***************************************************************************)
(* Characters and strings.                                                 *)
(***************************************************************************)
\* ord() of the characters that occur in the modelled names
Ch ==
    [dot |-> 46, slash |-> 47, us |-> 95,
     a |-> 97, b |-> 98, c |-> 99, d |-> 100, e |-> 101, f |-> 102, g |-> 103,
     i |-> 105, j |-> 106, k |-> 107, l |-> 108, m |-> 109, n |-> 110,
     o |-> 111, p |-> 112, q |-> 113, r |-> 114, s |-> 115, t |-> 116,
     u |-> 117, v |-> 118, y |-> 121, z |-> 122]

\* ord() of the decimal digit d
Digit(d) == 48 + d

\* str.startswith
StartsWith(s, p) ==
    /\ Len(p) <= Len(s)
    /\ SubSeq(s, 1, Len(p)) = p

\* str.endswith
EndsWith(s, x) ==
    /\ Len(x) <= Len(s)
    /\ SubSeq(s, Len(s) - Len(x) + 1, Len(s)) = x

\* the order of Python's str comparison: by code point, a proper prefix first
StrLess(x, y) ==
    \/ /\ Len(x) < Len(y)
       /\ SubSeq(y, 1, Len(x)) = x
    \/ \E k \in 1..Len(x) :
          /\ k <= Len(y)
          /\ SubSeq(x, 1, k - 1) = SubSeq(y, 1, k - 1)
          /\ x[k] < y[k]

\* the smallest string of a non-empty set
MinStr(S) == CHOOSE x \in S : \A y \in S : y = x \/ StrLess(x, y)

RECURSIVE SortedList(_)
\* list.sort() of a list without duplicates, given as the set of its elements
SortedList(S) ==
    IF S = {} THEN <<>>
    ELSE LET x == MinStr(S) IN <<x>> \o SortedList(S \ {x})

\* the set of the elements of a list
Range(s) == {s[k] : k \in DOMAIN s}

\* str.split('_'): the parts of s between underscores
RECURSIVE SplitUs(_)
SplitUs(s) ==
    IF \A k \in DOMAIN s : s[k] # Ch.us THEN <<s>>
    ELSE LET k == CHOOSE n \in DOMAIN s :
                      /\ s[n] = Ch.us
                      /\ \A q \in 1..(n - 1) : s[q] # Ch.us
         IN <<SubSeq(s, 1, k - 1)>> \o SplitUs(SubSeq(s, k + 1, Len(s)))

\* '_'.join(parts)
RECURSIVE JoinUs(_)
JoinUs(parts) ==
    IF Len(parts) = 0 THEN <<>>
    ELSE IF Len(parts) = 1 THEN parts[1]
    ELSE parts[1] \o <<Ch.us>> \o JoinUs(Tail(parts))

(***************************************************************************)
(* The strings of the programs.                                            *)
(***************************************************************************)
ExtZip == <<Ch.dot, Ch.z, Ch.i, Ch.p>>
ExtTarGz == <<Ch.dot, Ch.t, Ch.a, Ch.r, Ch.dot, Ch.g, Ch.z>>
Ext7z == <<Ch.dot, Digit(7), Ch.z>>
ExtSql == <<Ch.dot, Ch.s, Ch.q, Ch.l>>
ExtDump == <<Ch.dot, Ch.d, Ch.u, Ch.m, Ch.p>>
ExtDb == <<Ch.dot, Ch.d, Ch.b>>
ExtBackup == <<Ch.dot, Ch.b, Ch.a, Ch.c, Ch.k, Ch.u, Ch.p>>
StrBackup == <<Ch.b, Ch.a, Ch.c, Ch.k, Ch.u, Ch.p>>
StrSjg == <<Ch.s, Ch.j, Ch.g>>
StrSillytavern ==
    <<Ch.s, Ch.i, Ch.l, Ch.l, Ch.y, Ch.t, Ch.a, Ch.v, Ch.e, Ch.r, Ch.n>>
StrFoo == <<Ch.f, Ch.o, Ch.o>>
StrFoobar == <<Ch.f, Ch.o, Ch.o, Ch.b, Ch.a, Ch.r>>

\* two decimal digits, zero padded (%H, %M, %S, %m, %d)
TwoDigits(n) == <<Digit(n \div 10), Digit(n % 10)>>

\* datetime.strftime("%Y%m%d_%H%M%S") of the t-th second of 2024-01-01
Strftime(t) ==
    <<Digit(2), Digit(0), Digit(2), Digit(4)>> \o TwoDigits(1) \o TwoDigits(1)
        \o <<Ch.us>>
        \o TwoDigits((t \div 3600) % 24) \o TwoDigits((t \div 60) % 60)
        \o TwoDigits(t % 60)

(***************************************************************************)
(* Retention: the matching rules of the three cleanup_old_backups.         *)
(***************************************************************************)
\* hf_dataset_backup.cleanup_old_backups: the filter of the listing
hf_backup_files(files, dataset_short_name) ==
    {f \in files : StartsWith(f, dataset_short_name) /\ EndsWith(f, ExtZip)}

\* the extensions db_backup.cleanup_old_backups and the is_db branch accept
DbCleanupExts == {ExtSql, ExtDump, ExtZip, ExtDb}

\* the extensions the project branches of simple_backup accept
ProjectCleanupExts == {ExtZip, ExtTarGz, Ext7z}

\* db_backup.cleanup_old_backups: the filter of the listing
db_backup_files(files, db_name) ==
    {f \in files : /\ StartsWith(f, db_name)
                   /\ \E x \in DbCleanupExts : EndsWith(f, x)}

\* simple_backup.cleanup_old_backups: prefix plus the sjg/sillytavern swap
possible_prefixes(prefix) ==
    IF prefix = StrSjg THEN {prefix, StrSillytavern}
    ELSE IF prefix = StrSillytavern THEN {prefix, StrSjg}
    ELSE {prefix}

\* simple_backup.cleanup_old_backups: the three filters, after list(set(...))
simple_backup_files(files, prefix, is_db, is_project) ==
    IF is_db
    THEN {f \in files : /\ \E p \in possible_prefixes(prefix) : StartsWith(f, p)
                        /\ \E x \in DbCleanupExts : EndsWith(f, x)}
    ELSE IF is_project
    THEN {f \in files :
            /\ \E p \in possible_prefixes(prefix) :
                  \/ StartsWith(f, p \o <<Ch.us>> \o StrBackup \o <<Ch.us>>)
                  \/ StartsWith(f, p \o <<Ch.us, Digit(2), Digit(0)>>)
            /\ \E x \in ProjectCleanupExts : EndsWith(f, x)}
    ELSE {f \in files : /\ \E p \in possible_prefixes(prefix) : StartsWith(f, p)
                        /\ \E x \in ProjectCleanupExts : EndsWith(f, x)}

\* backup_files in descending order: the newest names first
newest_first_backup_files(matched) ==
    LET asc == SortedList(matched)
    IN [i \in 1..Len(asc) |-> asc[Len(asc) + 1 - i]]

\* backup_files with its first name standing at every position
repeated_backup_files(matched) ==
    LET asc == SortedList(matched)
    IN [i \in 1..Len(asc) |-> asc[1]]

\* a list the cleanup reads as the store returned it, here with the oldest
\* name last
listed_backup_files(matched) ==
    LET l == SortedList(matched) IN
    IF l = <<>> THEN l ELSE Tail(l) \o <<Head(l)>>

\* the list cleanup ranks: backup_files after backup_files.sort()
sorted_backup_files(matched) == SortedList(matched)

\* a comparison that lets a full set of max_backups names through to the loop
WithinLimitStrict(n, keep) == n < keep

\* a comparison that returns early for a list with names only
WithinLimitNonEmpty(n, keep) == 0 < n /\ n <= keep

\* if len(backup_files) <= max_backups: return
WithinLimit(n, keep) == n <= keep

\* a count of deletions that spares the newest of the surplus names
files_to_delete_sparing_one(n, keep) ==
    IF n - keep > 1 THEN n - keep - 1 ELSE n - keep

\* a cleanup that deletes one name, the oldest, for the one it uploaded
files_to_delete_one(n, keep) == n - (n - 1)

\* a count of deletions that does not look at max_backups
files_to_delete_all(n, keep) == n

\* files_to_delete = len(backup_files) - max_backups
files_to_delete(n, keep) == n - keep

(***************************************************************************)
(* Targets, artifact names and destination paths.                          *)
(***************************************************************************)
\* the script families
Variants == {"hf", "db", "project"}

\* A target definition as main() reads it from the configuration:
\*   name      dataset short name (hf), db name (db), project short name
\*   db_type   the type key: of the database (db), of the project's
\*             associated database (project); "none" when the key is absent
\*   has_path  the backup_path key is present
\*   has_token the hf_token key is present
Target(name, db_type, has_path, has_token) ==
    [name |-> name, db_type |-> db_type, has_path |-> has_path,
     has_token |-> has_token]

\* the sections of the configuration file, in file order
Catalog(v) ==
    IF v = "hf"
    THEN <<Target(StrFoo, "none", TRUE, TRUE),
           Target(StrFoobar, "none", TRUE, TRUE),
           Target(StrFoo, "none", TRUE, TRUE)>>
    ELSE IF v = "db"
    THEN <<Target(StrFoo, "mysql", FALSE, TRUE),
           Target(StrFoo, "other", FALSE, TRUE),
           Target(StrFoobar, "mysql", FALSE, TRUE),
           Target(StrFoobar, "none", FALSE, TRUE),
           Target(StrFoobar, "none", TRUE, TRUE)>>
    ELSE <<Target(StrSjg, "none", TRUE, TRUE),
           Target(StrFoo, "mysql", TRUE, TRUE),
           Target(StrFoobar, "bogus", TRUE, TRUE),
           Target(StrFoo, "none", TRUE, FALSE)>>

RECURSIVE PickInOrder(_, _)
\* the sections with index in I, in file order
PickInOrder(cat, I) ==
    IF I = {} THEN <<>>
    ELSE LET k == CHOOSE n \in I : \A q \in I : n <= q
         IN <<cat[k]>> \o PickInOrder(cat, I \ {k})

\* the task lists main() can build: the sections that pass the filters
TaskLists(v) ==
    {PickInOrder(Catalog(v), I) :
        I \in {J \in SUBSET DOMAIN Catalog(v) : Cardinality(J) <= MaxJobs}}

\* the extension of the dump each database type produces
DumpExt(db_type) ==
    IF db_type = "mysql" THEN ExtSql
    ELSE IF db_type = "postgresql" THEN ExtDump
    ELSE IF db_type = "mongodb" THEN ExtZip
    ELSE IF db_type = "sqlite" THEN ExtDb
    ELSE ExtBackup

\* hf_dataset_backup.create_archive: the name of the path it returns
hf_archive_name(dataset_short_name, t) ==
    dataset_short_name \o <<Ch.us>> \o Strftime(t) \o ExtZip \o ExtZip

\* db_backup.main: backup_file_name
db_backup_file_name(db_name, db_type, t) ==
    db_name \o <<Ch.us>> \o Strftime(t) \o DumpExt(db_type)

\* simple_backup.create_archive: archive_name
project_archive_name(file_prefix, t) ==
    file_prefix \o <<Ch.us>> \o StrBackup \o <<Ch.us>> \o Strftime(t) \o ExtTarGz

\* simple_backup.backup_*_database: the dump's file name
project_dump_name(db_name, db_type, t) ==
    db_name \o <<Ch.us>> \o Strftime(t) \o DumpExt(db_type)

\* the archives download_dataset may find in the source repository and
\* hand over as they are (basename of latest_backup); they were made before
\* the run
RepoArchives(short) ==
    {short \o <<Ch.us>> \o StrBackup \o <<Ch.us>> \o Strftime(0) \o ExtZip,
     short \o <<Ch.us>> \o Strftime(0) \o ExtZip,
     short \o ExtZip}

\* backup_project: detected_prefix of a downloaded archive
detected_prefix_of(basename, project_short_name) ==
    LET parts == SplitUs(basename)
        fromName ==
            IF Len(parts) > 1
            THEN IF \E k \in DOMAIN parts : parts[k] = StrBackup
                 THEN LET bi == CHOOSE k \in DOMAIN parts :
                                   /\ parts[k] = StrBackup
                                   /\ \A q \in 1..(k - 1) : parts[q] # StrBackup
                      IN JoinUs(SubSeq(parts, 1, bi - 1))
                 ELSE JoinUs(SubSeq(parts, 1, Len(parts) - 1))
            ELSE <<>>
    IN IF fromName # <<>> THEN fromName
       ELSE IF project_short_name = StrSjg THEN StrSillytavern
       ELSE project_short_name

\* the destination directory of a task's primary artifact
DestPath(v, task) ==
    IF v = "hf"
    THEN \* the backup_path of the account's section, or base + account
         IF task.has_path THEN <<"base", "acc">> ELSE <<"base", "other">>
    ELSE IF v = "db"
    THEN IF task.has_path THEN <<"custom">> ELSE <<"base", task.db_type>>
    ELSE <<"bk">>

\* backup_project: db_backup_path, by default backup_path + 'db/'
DbPath(v, task) == DestPath(v, task) \o <<"db">>

\* backup_project: db_name of the project's database
ProjectDbName(task) == StrFoo

\* the value of a db_max_backups key in the section of a project: main()
\* copies every key of the section into project_config, and backup_project
\* reads max_backups only
db_max_backups(task) == IF task.name = StrFoo THEN 1 ELSE MaxKeep

\* every remote directory of the model
Paths ==
    {<<"base", "acc">>, <<"base", "mysql">>, <<"base", "other">>,
     <<"custom">>, <<"bk">>, <<"bk", "db">>}

\* names that earlier runs may have left at a destination
OldNames(v) ==
    LET T == 0..(MaxOld - 1)
        T1 == 1..(MaxOld - 1)
    IN
    IF v = "hf"
    THEN {q \o <<Ch.us>> \o Strftime(t) \o ExtZip : q \in {StrFoo, StrFoobar}, t \in T}
    ELSE IF v = "db"
    THEN {db_backup_file_name(q, "mysql", t) : q \in {StrFoo, StrFoobar}, t \in T}
         \cup {db_backup_file_name(StrFoo, "other", t) : t \in T1}
    ELSE {project_archive_name(StrSjg, t) : t \in T}
         \cup {project_archive_name(StrSillytavern, t) : t \in T1}
         \cup {StrSjg \o <<Ch.us>> \o Strftime(t) \o ExtTarGz : t \in T1}
         \cup {project_archive_name(StrFoo, 0), project_dump_name(StrFoo, "mysql", 0)}

\* the remote listings a run may start from
InitialListings(v) == {L \in SUBSET OldNames(v) : Cardinality(L) <= MaxInit}

(***************************************************************************)
(* State.                                                                  *)
(***************************************************************************)
VARIABLES
    variant,        \* the script family of this run
    tasks,          \* backup_tasks / projects: the jobs main() built
    max_backups,    \* the max_backups of the run's targets
    parallel,       \* args.parallel
    clock,          \* datetime.now(), in seconds
    store,          \* the remote store: the names in each directory
    mainpc,         \* where main() is
    submitted,      \* how many tasks main() has handed to executor.submit
    collected,      \* the jobs whose result main() has consumed
    successful,     \* main(): successful / success_count
    failed,         \* main(): failed / failure_count
    pc,             \* where each job is
    stage,          \* "primary", or "db" for a project's database backup
    archive,        \* the name of the local artifact of the job's stage
    backup_prefix,  \* the name cleanup_old_backups is called with
    backup_files,   \* cleanup_old_backups: backup_files
    to_delete,      \* cleanup_old_backups: files_to_delete
    ndeleted,       \* cleanup_old_backups: i, the deletes that returned
    result,         \* what the job function gave: "ok", "fail", "raise"
    calls,          \* history: the Producer and store calls each job made
    deleted,        \* history: the <<directory, name>> each job's deletes removed
    remote_path,    \* upload_to_webdav: remote_path, a string
    dirs,           \* the directories of the remote store, as strings
    dirs0,          \* history: the directories before upload_to_webdav
    upc,            \* where upload_to_webdav is
    level,          \* which directory of the path is being ensured
    uplog,          \* history: the store calls of upload_to_webdav, in order
    faulted,        \* history: a store call failed although the store allowed it
    config,         \* main(): the target sections of the configuration file
    args,           \* main(): the selectors of the command line
    section_no,     \* main(): the section `for section in config.sections()` is at
    backup_tasks,   \* main(): backup_tasks / projects while it is built
    all_args,       \* backup_all.main: args
    allpc,          \* backup_all.main: where it is
    hf_success,     \* backup_all.main: hf_success
    db_success,     \* backup_all.main: db_success
    children,       \* backup_all: the child processes it launched, in order
    all_exit        \* backup_all: the exit status of the process, -1 until it exits

cfgVars == <<variant, tasks, max_backups, parallel>>
mainVars == <<mainpc, submitted, collected, successful, failed>>
cleanVars == <<backup_files, to_delete, ndeleted>>
histVars == <<calls, deleted>>
jobVars == <<pc, stage, archive, backup_prefix, cleanVars, result, histVars>>
upVars == <<remote_path, dirs, dirs0, upc, level, uplog, faulted>>
buildVars == <<config, args, section_no, backup_tasks>>
allVars == <<all_args, allpc, hf_success, db_success, children, all_exit>>
vars == <<cfgVars, clock, store, mainVars, jobVars, upVars, buildVars, allVars>>

\* backup_all is not what runs: the scripts were started on their own
NoPhases ==
    /\ all_args = [hf_only |-> FALSE, db_only |-> FALSE, hf_parallel |-> 1,
                   db_parallel |-> 1]
    /\ allpc = "idle"
    /\ hf_success = TRUE
    /\ db_success = TRUE
    /\ children = <<>>
    /\ all_exit = -1

Jobs == DOMAIN tasks

\* one directory for both stages of a job
CurPathOfArchive(j) == DestPath(variant, tasks[j])

\* the directory the job's current stage uploads to and cleans
CurPath(j) ==
    IF stage[j] = "db" THEN DbPath(variant, tasks[j])
    ELSE DestPath(variant, tasks[j])

\* the jobs a worker is executing
Running == {j \in Jobs : pc[j] \notin {"pending", "done"}}

Init ==
    /\ variant \in Variants
    /\ tasks \in TaskLists(variant)
    /\ max_backups \in 1..MaxKeep
    \* simple_backup.main never reads args.parallel: its loop is sequential
    /\ parallel \in (IF variant = "project" THEN {1} ELSE 1..MaxPar)
    /\ clock = MaxOld
    /\ \E L \in InitialListings(variant) : store = [d \in Paths |-> L]
    /\ mainpc = "start"
    /\ submitted = 0
    /\ collected = {}
    /\ successful = 0
    /\ failed = 0
    /\ pc = [j \in Jobs |-> "pending"]
    /\ stage = [j \in Jobs |-> "primary"]
    /\ archive = [j \in Jobs |-> <<>>]
    /\ backup_prefix = [j \in Jobs |-> <<>>]
    /\ backup_files = [j \in Jobs |-> <<>>]
    /\ to_delete = [j \in Jobs |-> 0]
    /\ ndeleted = [j \in Jobs |-> 0]
    /\ result = [j \in Jobs |-> "none"]
    /\ calls = [j \in Jobs |-> {}]
    /\ deleted = [j \in Jobs |-> {}]
    /\ remote_path = <<>>
    /\ dirs = {}
    /\ dirs0 = {}
    /\ upc = "idle"
    /\ level = 0
    /\ uplog = <<>>
    /\ faulted = FALSE
    /\ config = <<>>
    /\ args = [account |-> <<>>, target |-> <<>>]
    /\ section_no = 0
    /\ backup_tasks = <<>>
    /\ NoPhases

(***************************************************************************)
(* The orchestrators: main() of multi_accounts_backup, multi_db_backup and *)
(* simple_backup.                                                          *)
(***************************************************************************)
\* a main() that opens the pool or the loop without looking at the list
MainStartWithoutCheck ==
    /\ mainpc = "start"
    /\ mainpc' = IF variant = "project" THEN "loop" ELSE "submit"
    /\ UNCHANGED <<allVars, buildVars, upVars, cfgVars, clock, store, submitted, collected,
                   successful, failed, jobVars>>

\* main(): nothing to do without tasks, else the pool or the loop
MainStart ==
    /\ mainpc = "start"
    /\ mainpc' = IF Len(tasks) = 0 THEN "done"
                 ELSE IF variant = "project" THEN "loop" ELSE "submit"
    /\ UNCHANGED <<allVars, buildVars, upVars, cfgVars, clock, store, submitted, collected, successful,
                   failed, jobVars>>

\* main(): executor.submit of the next task
Submit ==
    /\ mainpc = "submit"
    /\ submitted < Len(tasks)
    /\ submitted' = submitted + 1
    /\ mainpc' = IF submitted' = Len(tasks) THEN "collect" ELSE "submit"
    /\ UNCHANGED <<allVars, buildVars, upVars, cfgVars, clock, store, collected, successful, failed, jobVars>>

\* a pool that hands every queued work item to a worker at once
CanStartUnbounded(j) ==
    IF variant = "project"
    THEN mainpc = "loop" /\ collected = 1..(j - 1)
    ELSE /\ j <= submitted
         /\ \A k \in 1..(j - 1) : pc[k] # "pending"

\* whether job j may begin: the next iteration of simple_backup's loop, or
\* a free worker of the pool taking the oldest queued work item
CanStart(j) ==
    IF variant = "project"
    THEN mainpc = "loop" /\ collected = 1..(j - 1)
    ELSE /\ j <= submitted
         /\ \A k \in 1..(j - 1) : pc[k] # "pending"
         /\ Cardinality(Running) < parallel

\* the job function raises while it reads the target definition:
\* os.path.join(base, None) in backup_database, project_config['hf_token']
\* and project_config['backup_path'] in backup_project
RaisesOnConfig(v, task) ==
    IF v = "db" THEN task.db_type = "none" /\ ~task.has_path
    ELSE IF v = "project" THEN ~task.has_token \/ ~task.has_path
    ELSE FALSE

\* db_backup.parse_arguments rejects --db-type=None: the child exits 2
RejectedByChild(v, task) == v = "db" /\ task.db_type = "none"

\* a job that goes back to the queue when it did not succeed
FinishOrRetry(j, r) ==
    /\ pc' = [pc EXCEPT ![j] = IF r = "ok" THEN "done" ELSE "pending"]
    /\ result' = [result EXCEPT ![j] = r]

\* the job ends: the value of the job function, or its exception
Finish(j, r) ==
    /\ pc' = [pc EXCEPT ![j] = "done"]
    /\ result' = [result EXCEPT ![j] = r]

\* a call of job j, in its current stage, and whether it succeeded
Call(j, op, ok) == [op |-> op, stage |-> stage[j], ok |-> ok]

\* the history of the calls of job j
Logged(j, op, ok) == calls' = [calls EXCEPT ![j] = @ \cup {Call(j, op, ok)}]

\* backup_dataset / backup_database / backup_project begins
Start(j) ==
    /\ pc[j] = "pending"
    /\ CanStart(j)
    /\ IF RaisesOnConfig(variant, tasks[j]) THEN Finish(j, "raise")
       ELSE IF RejectedByChild(variant, tasks[j]) THEN Finish(j, "fail")
       ELSE /\ pc' = [pc EXCEPT ![j] = "produce"]
            /\ UNCHANGED result
    /\ UNCHANGED <<allVars, buildVars, upVars, cfgVars, clock, store, mainVars, stage, archive, backup_prefix,
                   cleanVars, histVars>>

\* for future in as_completed(futures) / the end of an iteration of the loop:
\* main() consumes the result of a finished job; future.result() raises what
\* the job function raised, and in simple_backup the exception is main()'s own
Collect(j) ==
    /\ mainpc \in {"collect", "loop"}
    /\ pc[j] = "done"
    /\ j \notin collected
    /\ IF result[j] = "raise"
       THEN /\ mainpc' = "crashed"
            /\ UNCHANGED <<collected, successful, failed>>
       ELSE /\ mainpc' = mainpc
            /\ collected' = collected \cup {j}
            /\ successful' = IF result[j] = "ok" THEN successful + 1 ELSE successful
            /\ failed' = IF result[j] = "ok" THEN failed ELSE failed + 1
    /\ UNCHANGED <<allVars, buildVars, upVars, cfgVars, clock, store, submitted, jobVars>>

\* main() reports the counts
MainFinish ==
    /\ mainpc \in {"collect", "loop"}
    /\ collected = Jobs
    /\ mainpc' = "done"
    /\ UNCHANGED <<allVars, buildVars, upVars, cfgVars, clock, store, submitted, collected, successful,
                   failed, jobVars>>

\* the exit status of the orchestrator process: main() returns after its
\* report (or when there is nothing to do) and the interpreter exits 0; an
\* exception that leaves main() makes it exit 1; Running until then
ExitStatus ==
    IF mainpc = "done" THEN 0
    ELSE IF mainpc = "crashed" THEN 1
    ELSE -1

\* backup_all: the phase is reported as successful iff returncode == 0
PhaseSucceeded == ExitStatus = 0

(***************************************************************************)
(* The job: hf_dataset_backup.main, db_backup.main, backup_project.        *)
(***************************************************************************)
\* the times the Producer may finish at. Two jobs of the pool may finish in
\* the same second; a dump or a project download takes a second at least.
FinishTimes == IF variant = "hf" THEN {clock, clock + 1} ELSE {clock + 1}

\* a producer whose artifact goes to cleanup without an upload
ProducedSkippingUpload(j, t, name, prefix) ==
    /\ clock' = t
    /\ archive' = [archive EXCEPT ![j] = name]
    /\ backup_prefix' = [backup_prefix EXCEPT ![j] = prefix]
    /\ pc' = [pc EXCEPT ![j] = "list"]
    /\ Logged(j, "produce", TRUE)
    /\ UNCHANGED <<result, stage>>

\* the producer hands over, at time t, a local artifact called name; cleanup
\* will be called with prefix
Produced(j, t, name, prefix) ==
    /\ clock' = t
    /\ archive' = [archive EXCEPT ![j] = name]
    /\ backup_prefix' = [backup_prefix EXCEPT ![j] = prefix]
    /\ pc' = [pc EXCEPT ![j] = "upload"]
    /\ Logged(j, "produce", TRUE)
    /\ UNCHANGED <<result, stage>>

\* a producer failure after which the job reports success
ProduceFailedSilently(j) ==
    /\ Finish(j, "ok")
    /\ Logged(j, "produce", FALSE)
    /\ UNCHANGED <<clock, archive, backup_prefix, stage>>

\* a failed download after which backup_project goes on to the database
ProduceFailedThenDb(j) ==
    /\ Logged(j, "produce", FALSE)
    /\ IF variant = "project" /\ stage[j] = "primary" /\ tasks[j].db_type # "none"
       THEN /\ pc' = [pc EXCEPT ![j] = "db_produce"]
            /\ stage' = [stage EXCEPT ![j] = "db"]
            /\ UNCHANGED result
       ELSE /\ Finish(j, "fail")
            /\ UNCHANGED stage
    /\ UNCHANGED <<clock, archive, backup_prefix>>

\* the producer fails and the job ends: sys.exit(1) / return False
ProduceFailed(j) ==
    /\ Finish(j, "fail")
    /\ Logged(j, "produce", FALSE)
    /\ UNCHANGED <<clock, archive, backup_prefix, stage>>

\* download (and archive) or dump of the primary artifact
Produce(j) ==
    /\ pc[j] = "produce"
    /\ stage[j] = "primary"
    /\ LET nm == tasks[j].name IN
       \/ /\ variant = "hf"
          /\ \E t \in FinishTimes : Produced(j, t, hf_archive_name(nm, t), nm)
       \/ /\ variant = "db"
          /\ \E t \in FinishTimes :
                Produced(j, t, db_backup_file_name(nm, tasks[j].db_type, t), nm)
       \/ \* download_dataset returns a directory: create_archive
          /\ variant = "project"
          /\ \E t \in FinishTimes : Produced(j, t, project_archive_name(nm, t), nm)
       \/ \* download_dataset returns an archive of the source repository
          /\ variant = "project"
          /\ \E b \in RepoArchives(nm) :
                Produced(j, clock, b, detected_prefix_of(b, nm))
       \/ \* download_dataset returns None: look for an existing backup
          /\ variant = "project"
          /\ pc' = [pc EXCEPT ![j] = "fallback"]
          /\ Logged(j, "produce", FALSE)
          /\ UNCHANGED <<clock, archive, backup_prefix, stage, result>>
       \/ \* download raises (hf), the dump fails (db), create_archive
          \* returns None and upload_to_webdav(None) raises (project)
          ProduceFailed(j)
    /\ UNCHANGED <<allVars, buildVars, upVars, cfgVars, store, mainVars, cleanVars, deleted>>

\* backup_project, download failed: the prefix of an existing remote backup
ExistingBackupPrefix(files, project_short_name) ==
    LET found(q) ==
            \E f \in files :
               /\ \/ StartsWith(f, q \o <<Ch.us>> \o StrBackup \o <<Ch.us>>)
                  \/ StartsWith(f, q \o <<Ch.us, Digit(2), Digit(0)>>)
               /\ \E x \in ProjectCleanupExts : EndsWith(f, x)
    IN IF found(project_short_name) THEN project_short_name
       ELSE IF project_short_name = StrSjg /\ found(StrSillytavern)
       THEN StrSillytavern
       ELSE <<>>

\* backup_project, download failed: webdav_client.list(backup_path)
Fallback(j) ==
    /\ pc[j] = "fallback"
    /\ \/ /\ Logged(j, "list", TRUE)
          /\ LET q == ExistingBackupPrefix(store[CurPath(j)], tasks[j].name) IN
             IF q = <<>>
             THEN Finish(j, "fail") /\ UNCHANGED backup_prefix
             ELSE /\ backup_prefix' = [backup_prefix EXCEPT ![j] = q]
                  /\ pc' = [pc EXCEPT ![j] = "list"]
                  /\ UNCHANGED result
       \/ /\ Logged(j, "list", FALSE)
          /\ Finish(j, "fail")
          /\ UNCHANGED backup_prefix
    /\ UNCHANGED <<allVars, buildVars, upVars, cfgVars, clock, store, mainVars, stage, archive, cleanVars, deleted>>

\* an upload whose failure is logged and followed by the cleanup
UploadThenCleanup(j) ==
    /\ pc[j] = "upload"
    /\ \/ /\ store' = [store EXCEPT ![CurPath(j)] = @ \cup {archive[j]}]
          /\ Logged(j, "upload", TRUE)
       \/ /\ Logged(j, "upload", FALSE)
          /\ UNCHANGED store
    /\ pc' = [pc EXCEPT ![j] = "list"]
    /\ UNCHANGED <<allVars, buildVars, upVars, cfgVars, clock, mainVars, stage, archive, backup_prefix, cleanVars,
                   deleted, result>>

\* upload_to_webdav: the directory is ensured and the file is transferred
Upload(j) ==
    /\ pc[j] = "upload"
    /\ \/ /\ store' = [store EXCEPT ![CurPath(j)] = @ \cup {archive[j]}]
          /\ Logged(j, "upload", TRUE)
          /\ pc' = [pc EXCEPT ![j] = "list"]
          /\ UNCHANGED result
       \/ /\ Logged(j, "upload", FALSE)
          /\ Finish(j, "fail")
          /\ UNCHANGED store
    /\ UNCHANGED <<allVars, buildVars, upVars, cfgVars, clock, mainVars, stage, archive, backup_prefix, cleanVars,
                   deleted>>

\* the names cleanup_old_backups of job j keeps in backup_files
Matched(j, files) ==
    IF variant = "hf" THEN hf_backup_files(files, backup_prefix[j])
    ELSE IF variant = "db" THEN db_backup_files(files, backup_prefix[j])
    ELSE IF stage[j] = "db"
    THEN simple_backup_files(files, backup_prefix[j], TRUE, FALSE)
    ELSE simple_backup_files(files, backup_prefix[j], FALSE, TRUE)

\* a job that reports success as soon as the cleanup of the archive returned
AfterCleanupSkippingDb(j) ==
    /\ Finish(j, "ok")
    /\ UNCHANGED stage

\* the job's cleanup returned: the database stage of a project, or the end
AfterCleanup(j) ==
    IF variant = "project" /\ stage[j] = "primary" /\ tasks[j].db_type # "none"
    THEN /\ pc' = [pc EXCEPT ![j] = "db_produce"]
         /\ stage' = [stage EXCEPT ![j] = "db"]
         /\ UNCHANGED result
    ELSE /\ Finish(j, "ok")
         /\ UNCHANGED stage

\* a cleanup whose exception is swallowed: the job reports success
CleanupSwallowed(j) == Finish(j, "ok")

\* a cleanup that logs the exception and tries the same call again
CleanupGoesOn(j) == UNCHANGED <<pc, result>>

\* cleanup_old_backups logs the exception of list or clean and raises it
\* again; the caller's handler ends the job: sys.exit(1) / return False
CleanupRaised(j) == Finish(j, "fail")

\* cleanup_old_backups up to the loop: list, filter, compare, sort
List(j) ==
    /\ pc[j] = "list"
    /\ \/ /\ Logged(j, "list", TRUE)
          /\ LET m == Matched(j, store[CurPath(j)]) IN
             \* the order of the list is read only after sort()
             /\ backup_files' = [backup_files EXCEPT ![j] = sorted_backup_files(m)]
             /\ ndeleted' = [ndeleted EXCEPT ![j] = 0]
             /\ IF WithinLimit(Cardinality(m), max_backups)
                THEN /\ to_delete' = [to_delete EXCEPT ![j] = 0]
                     /\ AfterCleanup(j)
                ELSE /\ to_delete' = [to_delete EXCEPT ![j] =
                                         files_to_delete(Cardinality(m), max_backups)]
                     /\ pc' = [pc EXCEPT ![j] = "delete"]
                     /\ UNCHANGED <<result, stage>>
       \/ /\ Logged(j, "list", FALSE)
          /\ CleanupRaised(j)
          /\ UNCHANGED <<cleanVars, stage>>
    /\ UNCHANGED <<allVars, buildVars, upVars, cfgVars, clock, store, mainVars, archive, backup_prefix, deleted>>

\* cleanup_old_backups, one iteration of the loop: webdav_client.clean
Delete(j) ==
    /\ pc[j] = "delete"
    /\ IF ndeleted[j] + 1 \in DOMAIN backup_files[j]
       THEN LET f == backup_files[j][ndeleted[j] + 1] IN
            \/ /\ store' = [store EXCEPT ![CurPath(j)] = @ \ {f}]
               /\ Logged(j, "delete", TRUE)
               /\ deleted' = [deleted EXCEPT ![j] = @ \cup {<<CurPath(j), f>>}]
               /\ ndeleted' = [ndeleted EXCEPT ![j] = @ + 1]
               /\ IF ndeleted'[j] = to_delete[j]
                  THEN AfterCleanup(j)
                  ELSE UNCHANGED <<pc, result, stage>>
            \/ /\ Logged(j, "delete", FALSE)
               /\ CleanupRaised(j)
               /\ UNCHANGED <<store, ndeleted, stage, deleted>>
       ELSE \* backup_files[i] with i past the end of the list: IndexError
            /\ CleanupRaised(j)
            /\ UNCHANGED <<store, ndeleted, stage, deleted, calls>>
    /\ UNCHANGED <<allVars, buildVars, upVars, cfgVars, clock, mainVars, archive, backup_prefix, backup_files,
                   to_delete>>

\* backup_project: the dump of the project's database
DbProduce(j) ==
    /\ pc[j] = "db_produce"
    /\ \/ /\ tasks[j].db_type \in {"mysql", "postgresql", "mongodb", "sqlite"}
          /\ \E t \in FinishTimes :
                Produced(j, t,
                         project_dump_name(ProjectDbName(tasks[j]), tasks[j].db_type, t),
                         ProjectDbName(tasks[j]))
       \/ \* the dump fails, or the type is not supported: db_file is None
          ProduceFailed(j)
    /\ UNCHANGED <<allVars, buildVars, upVars, cfgVars, store, mainVars, cleanVars, deleted>>

Next ==
    \/ MainStart
    \/ Submit
    \/ MainFinish
    \/ \E j \in Jobs : Start(j)
    \/ \E j \in Jobs : Produce(j)
    \/ \E j \in Jobs : Fallback(j)
    \/ \E j \in Jobs : Upload(j)
    \/ \E j \in Jobs : List(j)
    \/ \E j \in Jobs : Delete(j)
    \/ \E j \in Jobs : DbProduce(j)
    \/ \E j \in Jobs : Collect(j)

Spec == Init /\ [][Next]_vars

(***************************************************************************)
(* upload_to_webdav, call by call: ensuring the destination directory and  *)
(* transferring the file.  hf_dataset_backup and db_backup share one       *)
(* upload_to_webdav; simple_backup has its own, with create_remote_dirs.   *)
(* Paths are strings here, so that os.path.dirname and the slicing of      *)
(* create_remote_dirs are what Python computes.                            *)
(***************************************************************************)
StrRoot == <<Ch.slash>>

\* the names of the components of the modelled paths, by depth
ComponentNames == <<Ch.a, Ch.b, Ch.c, Ch.d, Ch.e>>

\* the directory path of k components: "/", "/a/", "/a/b/", ...
RECURSIVE PathOfDepth(_)
PathOfDepth(k) ==
    IF k = 0 THEN StrRoot
    ELSE PathOfDepth(k - 1) \o <<ComponentNames[k], Ch.slash>>

\* the paths main() may hand to upload_to_webdav: they end with '/'
RemotePaths == {PathOfDepth(k) : k \in 0..MaxDepth}

\* str.rstrip('/')
RECURSIVE RStripSlash(_)
RStripSlash(s) ==
    IF s # <<>> /\ s[Len(s)] = Ch.slash
    THEN RStripSlash(SubSeq(s, 1, Len(s) - 1))
    ELSE s

\* os.path.dirname (posixpath): the head up to the last '/', without its
\* trailing slashes unless the head is slashes only
Dirname(s) ==
    LET I == {i \in 1..Len(s) : s[i] = Ch.slash}
        head == IF I = {} THEN <<>>
                ELSE SubSeq(s, 1, CHOOSE i \in I : \A k \in I : k <= i)
    IN IF head # <<>> /\ RStripSlash(head) # <<>> THEN RStripSlash(head) ELSE head

\* create_remote_dirs: the directories it checks, in the order it checks
\* them: the recursion into the parent comes before the check of the path
RECURSIVE create_remote_dirs(_)
create_remote_dirs(path) ==
    IF path = StrRoot \/ path = <<>> THEN <<>>
    ELSE LET stripped == IF EndsWith(path, <<Ch.slash>>)
                         THEN SubSeq(path, 1, Len(path) - 1) ELSE path
             parent_path == Dirname(stripped)
         IN (IF parent_path # <<>> /\ parent_path # StrRoot
             THEN create_remote_dirs(parent_path \o <<Ch.slash>>)
             ELSE <<>>)
            \o <<stripped \o <<Ch.slash>>>>

\* upload_to_webdav: the directories it ensures before upload_sync;
\* hf_dataset_backup and db_backup check remote_path only
DirsToEnsure(v, path) ==
    IF v = "project" THEN create_remote_dirs(path) ELSE <<path>>

\* the collection that holds the directory d
ParentDir(d) == Dirname(RStripSlash(d)) \o
                (IF Dirname(RStripSlash(d)) = StrRoot THEN <<>> ELSE <<Ch.slash>>)

\* webdav_client.check(d): the root always exists
Exists(d) == d = StrRoot \/ d \in dirs

NeedsMkdirAlways(d) == TRUE

\* `if not webdav_client.check(...)`: mkdir is called for a missing directory
NeedsMkdir(d) == ~Exists(d)

\* webdav_client.mkdir(d) can succeed: the store creates one collection,
\* inside an existing one
MkdirAllowed(d) == ~Exists(d) /\ Exists(ParentDir(d))

\* create_remote_dirs catches the exception of mkdir; upload_to_webdav of
\* hf_dataset_backup and db_backup lets it reach its `except` and re-raises
MkdirErrorIgnored(v) == v = "project"

\* a store call of upload_to_webdav
UpCall(op, d, ok) == [op |-> op, path |-> d, ok |-> ok]

\* the run of one upload_to_webdav(webdav_client, local_file, remote_path)
UploadInit ==
    /\ variant \in Variants
    /\ tasks = <<>>
    /\ max_backups = 1
    /\ parallel = 1
    /\ clock = MaxOld
    /\ store = [d \in Paths |-> {}]
    /\ mainpc = "start"
    /\ submitted = 0
    /\ collected = {}
    /\ successful = 0
    /\ failed = 0
    /\ pc = <<>>
    /\ stage = <<>>
    /\ archive = <<>>
    /\ backup_prefix = <<>>
    /\ backup_files = <<>>
    /\ to_delete = <<>>
    /\ ndeleted = <<>>
    /\ result = <<>>
    /\ calls = <<>>
    /\ deleted = <<>>
    /\ remote_path \in RemotePaths
    \* a directory of the store lies in a directory of the store
    /\ \E k \in 0..MaxDepth : dirs0 = {PathOfDepth(i) : i \in 1..k}
    /\ dirs = dirs0
    /\ upc = IF DirsToEnsure(variant, remote_path) = <<>> THEN "upload" ELSE "check"
    /\ level = 1
    /\ uplog = <<>>
    /\ faulted = FALSE
    /\ config = <<>>
    /\ args = [account |-> <<>>, target |-> <<>>]
    /\ section_no = 0
    /\ backup_tasks = <<>>
    /\ NoPhases

\* the directory being ensured
CurDir == DirsToEnsure(variant, remote_path)[level]

\* the directory is there or was tried: on to the next one, or to upload_sync
NextDir ==
    IF level = Len(DirsToEnsure(variant, remote_path))
    THEN upc' = "upload" /\ UNCHANGED level
    ELSE upc' = "check" /\ level' = level + 1

\* webdav_client.check(CurDir); its exception is not caught before the
\* `except` of upload_to_webdav
UpCheck ==
    /\ upc = "check"
    /\ \E ok \in BOOLEAN :
          /\ uplog' = Append(uplog, UpCall("check", CurDir, ok))
          /\ faulted' = (faulted \/ ~ok)
          /\ IF ~ok THEN upc' = "raised" /\ UNCHANGED level
             ELSE IF NeedsMkdir(CurDir) THEN upc' = "mkdir" /\ UNCHANGED level
             ELSE NextDir
    /\ UNCHANGED <<allVars, buildVars, cfgVars, clock, store, mainVars, jobVars, remote_path, dirs, dirs0>>

\* webdav_client.mkdir(CurDir)
UpMkdir ==
    /\ upc = "mkdir"
    /\ \E ok \in (IF MkdirAllowed(CurDir) THEN BOOLEAN ELSE {FALSE}) :
          /\ uplog' = Append(uplog, UpCall("mkdir", CurDir, ok))
          /\ dirs' = IF ok THEN dirs \cup {CurDir} ELSE dirs
          /\ faulted' = (faulted \/ (~ok /\ MkdirAllowed(CurDir)))
          /\ IF ok \/ MkdirErrorIgnored(variant) THEN NextDir
             ELSE upc' = "raised" /\ UNCHANGED level
    /\ UNCHANGED <<allVars, buildVars, cfgVars, clock, store, mainVars, jobVars, remote_path, dirs0>>

\* webdav_client.upload_sync: the file goes into an existing directory
UpTransfer ==
    /\ upc = "upload"
    /\ \E ok \in (IF Exists(remote_path) THEN BOOLEAN ELSE {FALSE}) :
          /\ uplog' = Append(uplog, UpCall("upload", remote_path, ok))
          /\ faulted' = (faulted \/ (~ok /\ Exists(remote_path)))
          /\ upc' = IF ok THEN "done" ELSE "raised"
    /\ UNCHANGED <<allVars, buildVars, cfgVars, clock, store, mainVars, jobVars, remote_path, dirs, dirs0,
                   level>>

UploadNext ==
    \/ UpCheck
    \/ UpMkdir
    \/ UpTransfer

UploadSpec == UploadInit /\ [][UploadNext]_vars

(***************************************************************************)
(* main() of the three orchestrators up to the task list: the loop over    *)
(* the sections of the configuration file and the selectors of the command *)
(* line.  Section names, dataset ids and selectors are strings.            *)
(***************************************************************************)
\* the account names of the modelled configurations
AccountNames == <<<<Ch.a>>, <<Ch.a, Ch.b>>, <<Ch.b>>>>

\* the short names of the modelled datasets, databases and projects
ShortNames == <<<<Ch.f>>, <<Ch.o, Ch.f>>>>

\* "<account>/<short name>"
QualifiedNames ==
    {AccountNames[i] \o <<Ch.slash>> \o ShortNames[k] :
        i \in DOMAIN AccountNames, k \in DOMAIN ShortNames}

\* the names a section can have after its "account:", "database:" or
\* "project:"
SectionNames(v) ==
    IF v = "hf" THEN Range(AccountNames)
    ELSE IF v = "db" THEN Range(ShortNames) \cup {<<Ch.f, Ch.o>>}
    ELSE QualifiedNames

\* the values of the datasets key after split(',') and strip()
DatasetLists ==
    UNION {[1..n -> QualifiedNames] : n \in 1..MaxDatasets}

\* a section: its name and, for an account, its datasets
Section(name, datasets) == [name |-> name, datasets |-> datasets]

\* config.sections(): at most MaxSections sections; configparser refuses a
\* section name that occurs twice
Configs(v) ==
    LET D == IF v = "hf" THEN DatasetLists ELSE {<<>>}
        Secs == {Section(n, d) : n \in SectionNames(v), d \in D}
    IN {c \in UNION {[1..n -> Secs] : n \in 0..MaxSections} :
           \A i \in DOMAIN c : \A k \in DOMAIN c :
               i < k => StrLess(c[i].name, c[k].name)}

\* parse_arguments: --account and --dataset / --database / --project; an
\* option that is not given is None
Selectors(v) ==
    LET none == {<<>>} IN
    [account : IF v = "db" THEN none ELSE none \cup Range(AccountNames),
     target : IF v = "hf" THEN none \cup Range(ShortNames) \cup QualifiedNames
              ELSE none \cup SectionNames(v)]

\* a task of the list: the target it is for
Task(account, target) == [account |-> account, target |-> target]

\* ds == args.dataset or ds.endswith('/' + args.dataset)
dataset_selected(ds, dataset) ==
    ds = dataset \/ EndsWith(ds, <<Ch.slash>> \o dataset)

\* the tasks main() appends for one section
SectionTasks(v, sec, a) ==
    IF v = "hf"
    THEN IF a.account # <<>> /\ a.account # sec.name THEN <<>>
         ELSE LET test(ds) == dataset_selected(ds, a.target)
                  datasets == IF a.target # <<>>
                              THEN SelectSeq(sec.datasets, test)
                              ELSE sec.datasets
              IN [i \in 1..Len(datasets) |-> Task(sec.name, datasets[i])]
    ELSE IF v = "db"
    THEN IF a.target # <<>> /\ a.target # sec.name THEN <<>>
         ELSE <<Task(<<>>, sec.name)>>
    ELSE IF a.target # <<>> /\ a.target # sec.name THEN <<>>
         ELSE IF a.account # <<>>
                 /\ ~StartsWith(sec.name, a.account \o <<Ch.slash>>)
         THEN <<>>
         ELSE <<Task(<<>>, sec.name)>>

\* main() after read_config, before the loop over the sections
BuildInit ==
    /\ variant \in Variants
    /\ tasks = <<>>
    /\ max_backups = 1
    /\ parallel = 1
    /\ clock = MaxOld
    /\ store = [d \in Paths |-> {}]
    /\ mainpc = "start"
    /\ submitted = 0
    /\ collected = {}
    /\ successful = 0
    /\ failed = 0
    /\ pc = <<>>
    /\ stage = <<>>
    /\ archive = <<>>
    /\ backup_prefix = <<>>
    /\ backup_files = <<>>
    /\ to_delete = <<>>
    /\ ndeleted = <<>>
    /\ result = <<>>
    /\ calls = <<>>
    /\ deleted = <<>>
    /\ remote_path = <<>>
    /\ dirs = {}
    /\ dirs0 = {}
    /\ upc = "idle"
    /\ level = 0
    /\ uplog = <<>>
    /\ faulted = FALSE
    /\ config \in Configs(variant)
    /\ args \in Selectors(variant)
    /\ section_no = 1
    /\ backup_tasks = <<>>
    /\ NoPhases

\* one iteration of `for section in config.sections()`
ReadSection ==
    /\ section_no \in DOMAIN config
    /\ backup_tasks' = backup_tasks \o SectionTasks(variant, config[section_no], args)
    /\ section_no' = section_no + 1
    /\ UNCHANGED <<allVars, cfgVars, clock, store, mainVars, jobVars, upVars, config, args>>

BuildNext == ReadSection

BuildSpec == BuildInit /\ [][BuildNext]_vars

(***************************************************************************)
(* cleanup_old_backups on its own: any listing of the destination, the     *)
(* empty one included, and any max_backups the command line or the         *)
(* configuration can give: type=int / int() accept 0 and negative numbers. *)
(***************************************************************************)
\* the values of max_backups: below 1, and 1..MaxKeep
KeepValues == (-1)..MaxKeep

\* the targets cleanup is run for: the job ends when cleanup returns
CleanupTargets(v) ==
    {<<Catalog(v)[i]>> : i \in {k \in DOMAIN Catalog(v) :
                                  /\ ~RaisesOnConfig(v, Catalog(v)[k])
                                  /\ ~RejectedByChild(v, Catalog(v)[k])}}

\* cleanup_old_backups(webdav_client, remote_path, name, max_backups) is
\* entered
CleanupInit ==
    /\ variant \in Variants
    /\ tasks \in CleanupTargets(variant)
    /\ max_backups \in KeepValues
    /\ parallel = 1
    /\ clock = MaxOld
    /\ \E L \in InitialListings(variant) : store = [d \in Paths |-> L]
    /\ mainpc = IF variant = "project" THEN "loop" ELSE "collect"
    /\ submitted = 1
    /\ collected = {}
    /\ successful = 0
    /\ failed = 0
    /\ pc = [j \in Jobs |-> "list"]
    \* the cleanup of the archive, or of the dump of a project's database
    /\ stage \in [Jobs -> {"primary", "db"}]
    /\ \A j \in Jobs :
          stage[j] = "db" => variant = "project" /\ DumpExt(tasks[j].db_type) # ExtBackup
    /\ archive = [j \in Jobs |-> <<>>]
    /\ backup_prefix = [j \in Jobs |->
                           IF stage[j] = "db" THEN ProjectDbName(tasks[j])
                           ELSE tasks[j].name]
    /\ backup_files = [j \in Jobs |-> <<>>]
    /\ to_delete = [j \in Jobs |-> 0]
    /\ ndeleted = [j \in Jobs |-> 0]
    /\ result = [j \in Jobs |-> "none"]
    /\ calls = [j \in Jobs |-> {}]
    /\ deleted = [j \in Jobs |-> {}]
    /\ remote_path = <<>>
    /\ dirs = {}
    /\ dirs0 = {}
    /\ upc = "idle"
    /\ level = 0
    /\ uplog = <<>>
    /\ faulted = FALSE
    /\ config = <<>>
    /\ args = [account |-> <<>>, target |-> <<>>]
    /\ section_no = 0
    /\ backup_tasks = <<>>
    /\ NoPhases

CleanupNext ==
    \/ \E j \in Jobs : List(j)
    \/ \E j \in Jobs : Delete(j)

CleanupSpec == CleanupInit /\ [][CleanupNext]_vars

(***************************************************************************)
(* A batch of the pool whose targets have pairwise distinct destinations:  *)
(* main() of multi_accounts_backup and multi_db_backup with one dataset    *)
(* per account, one database per directory.                                *)
(***************************************************************************)
\* the sections of the configuration file of a batch, in file order
BatchCatalog(v) ==
    IF v = "hf"
    THEN <<Target(StrFoo, "none", TRUE, TRUE),
           Target(StrFoo, "none", FALSE, TRUE)>>
    ELSE <<Target(StrFoo, "mysql", FALSE, TRUE),
           Target(StrFoo, "other", FALSE, TRUE),
           Target(StrFoo, "mysql", TRUE, TRUE)>>

\* the task lists of a batch: two targets or more, no destination twice
BatchTaskLists(v) ==
    {PickInOrder(BatchCatalog(v), I) :
        I \in {J \in SUBSET DOMAIN BatchCatalog(v) : Cardinality(J) >= 2}}

\* what earlier runs of a target left at its destination: its k oldest
\* artifacts
BatchListing(v, task, k) ==
    IF v = "hf"
    THEN {task.name \o <<Ch.us>> \o Strftime(t) \o ExtZip : t \in 0..(k - 1)}
    ELSE {db_backup_file_name(task.name, task.db_type, t) : t \in 0..(k - 1)}

\* main() of a batch after it built the task list; every destination has
\* a listing of its own
BatchInit ==
    /\ variant \in {"hf", "db"}
    /\ tasks \in BatchTaskLists(variant)
    /\ max_backups \in 1..MaxKeep
    /\ parallel \in 1..MaxPar
    /\ clock = MaxOld
    /\ \E n \in [Jobs -> 0..MaxInit] :
          store = [d \in Paths |->
                     UNION {BatchListing(variant, tasks[j], n[j]) :
                               j \in {i \in Jobs : DestPath(variant, tasks[i]) = d}}]
    /\ mainpc = "start"
    /\ submitted = 0
    /\ collected = {}
    /\ successful = 0
    /\ failed = 0
    /\ pc = [j \in Jobs |-> "pending"]
    /\ stage = [j \in Jobs |-> "primary"]
    /\ archive = [j \in Jobs |-> <<>>]
    /\ backup_prefix = [j \in Jobs |-> <<>>]
    /\ backup_files = [j \in Jobs |-> <<>>]
    /\ to_delete = [j \in Jobs |-> 0]
    /\ ndeleted = [j \in Jobs |-> 0]
    /\ result = [j \in Jobs |-> "none"]
    /\ calls = [j \in Jobs |-> {}]
    /\ deleted = [j \in Jobs |-> {}]
    /\ remote_path = <<>>
    /\ dirs = {}
    /\ dirs0 = {}
    /\ upc = "idle"
    /\ level = 0
    /\ uplog = <<>>
    /\ faulted = FALSE
    /\ config = <<>>
    /\ args = [account |-> <<>>, target |-> <<>>]
    /\ section_no = 0
    /\ backup_tasks = <<>>
    /\ NoPhases

BatchNext ==
    \/ MainStart
    \/ Submit
    \/ MainFinish
    \/ \E j \in Jobs : Start(j)
    \/ \E j \in Jobs : Produce(j)
    \/ \E j \in Jobs : Upload(j)
    \/ \E j \in Jobs : List(j)
    \/ \E j \in Jobs : Delete(j)
    \/ \E j \in Jobs : Collect(j)

BatchSpec == BatchInit /\ [][BatchNext]_vars

(***************************************************************************)
(* A run for one target with any max_backups the scripts accept:           *)
(* --max-backups has type=int, and simple_backup applies int() to the      *)
(* max_backups key; neither checks the sign.                               *)
(***************************************************************************)
\* the task lists of one target
SingleTaskLists(v) == {<<Catalog(v)[i]>> : i \in DOMAIN Catalog(v)}

\* main() after it built the task list of one target
AnyKeepInit ==
    /\ variant \in Variants
    /\ tasks \in SingleTaskLists(variant)
    /\ max_backups \in KeepValues
    /\ parallel \in (IF variant = "project" THEN {1} ELSE 1..MaxPar)
    /\ clock = MaxOld
    /\ \E L \in InitialListings(variant) : store = [d \in Paths |-> L]
    /\ mainpc = "start"
    /\ submitted = 0
    /\ collected = {}
    /\ successful = 0
    /\ failed = 0
    /\ pc = [j \in Jobs |-> "pending"]
    /\ stage = [j \in Jobs |-> "primary"]
    /\ archive = [j \in Jobs |-> <<>>]
    /\ backup_prefix = [j \in Jobs |-> <<>>]
    /\ backup_files = [j \in Jobs |-> <<>>]
    /\ to_delete = [j \in Jobs |-> 0]
    /\ ndeleted = [j \in Jobs |-> 0]
    /\ result = [j \in Jobs |-> "none"]
    /\ calls = [j \in Jobs |-> {}]
    /\ deleted = [j \in Jobs |-> {}]
    /\ remote_path = <<>>
    /\ dirs = {}
    /\ dirs0 = {}
    /\ upc = "idle"
    /\ level = 0
    /\ uplog = <<>>
    /\ faulted = FALSE
    /\ config = <<>>
    /\ args = [account |-> <<>>, target |-> <<>>]
    /\ section_no = 0
    /\ backup_tasks = <<>>
    /\ NoPhases

AnyKeepSpec == AnyKeepInit /\ [][Next]_vars

(***************************************************************************)
(* backup_all.main: the dataset phase and the database phase.  A phase is  *)
(* one child process, multi_accounts_backup.py or multi_db_backup.py, that *)
(* subprocess.run launches and waits for.                                  *)
(***************************************************************************)
HfScript == "multi_accounts_backup.py"
DbScript == "multi_db_backup.py"

\* the statuses a child exits with: 0, 1 after sys.exit(1) or an exception
\* that leaves main(), 2 when argparse rejects the command line
ReturnCodes == 0..2

\* the command lines of backup_all
AllArgs ==
    [hf_only : BOOLEAN, db_only : BOOLEAN, hf_parallel : 1..MaxPar,
     db_parallel : 1..MaxPar]

\* a child process: status is "running" until it exits, "raised" when
\* subprocess.run raised instead of returning; returncode is -1 until there
\* is one
Child(script, par, status, rc) ==
    [script |-> script, parallel |-> par, status |-> status, returncode |-> rc]

\* backup_all.main after parse_arguments
AllInit ==
    /\ variant = "hf"
    /\ tasks = <<>>
    /\ max_backups = 1
    /\ parallel = 1
    /\ clock = MaxOld
    /\ store = [d \in Paths |-> {}]
    /\ mainpc = "start"
    /\ submitted = 0
    /\ collected = {}
    /\ successful = 0
    /\ failed = 0
    /\ pc = <<>>
    /\ stage = <<>>
    /\ archive = <<>>
    /\ backup_prefix = <<>>
    /\ backup_files = <<>>
    /\ to_delete = <<>>
    /\ ndeleted = <<>>
    /\ result = <<>>
    /\ calls = <<>>
    /\ deleted = <<>>
    /\ remote_path = <<>>
    /\ dirs = {}
    /\ dirs0 = {}
    /\ upc = "idle"
    /\ level = 0
    /\ uplog = <<>>
    /\ faulted = FALSE
    /\ config = <<>>
    /\ args = [account |-> <<>>, target |-> <<>>]
    /\ section_no = 0
    /\ backup_tasks = <<>>
    /\ all_args \in AllArgs
    /\ allpc = "hf"
    /\ hf_success = TRUE
    /\ db_success = TRUE
    /\ children = <<>>
    /\ all_exit = -1

\* what backup_all leaves alone
AllFrame == UNCHANGED <<cfgVars, clock, store, mainVars, jobVars, upVars, buildVars, all_args>>

\* subprocess.run starts the child and blocks, or raises
Launch(script, par, waitpc, nextpc) ==
    \/ /\ children' = Append(children, Child(script, par, "running", -1))
       /\ allpc' = waitpc
       /\ UNCHANGED <<hf_success, db_success>>
    \/ /\ children' = Append(children, Child(script, par, "raised", -1))
       /\ allpc' = nextpc
       /\ hf_success' = IF script = HfScript THEN FALSE ELSE hf_success
       /\ db_success' = IF script = DbScript THEN FALSE ELSE db_success

\* subprocess.run returns: the phase succeeded iff returncode == 0
Return(script, nextpc) ==
    \E rc \in ReturnCodes :
        /\ children' = [children EXCEPT ![Len(children)].status = "exited",
                                        ![Len(children)].returncode = rc]
        /\ allpc' = nextpc
        /\ hf_success' = IF script = HfScript THEN rc = 0 ELSE hf_success
        /\ db_success' = IF script = DbScript THEN rc = 0 ELSE db_success

\* if not args.db_only: hf_success = backup_huggingface_datasets(...)
HfPhase ==
    /\ allpc = "hf"
    /\ IF all_args.db_only
       THEN allpc' = "db" /\ UNCHANGED <<hf_success, db_success, children>>
       ELSE Launch(HfScript, all_args.hf_parallel, "hf_wait", "db")
    /\ UNCHANGED all_exit
    /\ AllFrame

\* backup_huggingface_datasets: subprocess.run returns
HfReturn ==
    /\ allpc = "hf_wait"
    /\ Return(HfScript, "db")
    /\ UNCHANGED all_exit
    /\ AllFrame

\* a database phase that is left out after a failed dataset phase
DbPhaseAfterSuccess ==
    /\ allpc = "db"
    /\ IF all_args.hf_only \/ ~hf_success
       THEN allpc' = "report" /\ UNCHANGED <<hf_success, db_success, children>>
       ELSE Launch(DbScript, all_args.db_parallel, "db_wait", "report")
    /\ UNCHANGED all_exit
    /\ AllFrame

\* if not args.hf_only: db_success = backup_databases(...)
DbPhase ==
    /\ allpc = "db"
    /\ IF all_args.hf_only
       THEN allpc' = "report" /\ UNCHANGED <<hf_success, db_success, children>>
       ELSE Launch(DbScript, all_args.db_parallel, "db_wait", "report")
    /\ UNCHANGED all_exit
    /\ AllFrame

\* backup_databases: subprocess.run returns
DbReturn ==
    /\ allpc = "db_wait"
    /\ Return(DbScript, "report")
    /\ UNCHANGED all_exit
    /\ AllFrame

\* the report and the exit status: sys.exit(1), or the end of main()
AllExit ==
    /\ allpc = "report"
    /\ all_exit' = IF \/ ~all_args.db_only /\ ~hf_success
                      \/ ~all_args.hf_only /\ ~db_success
                   THEN 1 ELSE 0
    /\ allpc' = "exited"
    /\ UNCHANGED <<hf_success, db_success, children>>
    /\ AllFrame

AllNext ==
    \/ HfPhase
    \/ HfReturn
    \/ DbPhase
    \/ DbReturn
    \/ AllExit

AllSpec == AllInit /\ [][AllNext]_vars

(***************************************************************************)
(* The local files of a job.  A path is <<directory, name>>; directory 0   *)
(* is tempfile.gettempdir(), which all jobs of a run share, directory j is *)
(* the temporary directory job j made for itself.                          *)
(***************************************************************************)
\* tempfile.gettempdir()
SharedTempDir == 0

\* hf_dataset_backup.create_archive: shutil.make_archive is given
\* archive_path without '.zip' and writes that base name plus '.zip'; the
\* function returns archive_path + '.zip'
made_archive_name(returned_name) ==
    SubSeq(returned_name, 1, Len(returned_name) - Len(ExtZip))

\* the local file the producer of job j's stage wrote
WrittenArchive(j) ==
    IF variant = "hf"
    THEN <<SharedTempDir, made_archive_name(archive[j])>>
    ELSE IF variant = "db" \/ stage[j] = "db"
    THEN \* os.path.join(temp_dir, backup_file_name)
         <<j, archive[j]>>
    ELSE IF archive[j] \in RepoArchives(tasks[j].name)
    THEN \* download_dataset: os.path.join(temp_dir, latest_backup)
         <<j, archive[j]>>
    ELSE \* simple_backup.create_archive
         <<SharedTempDir, archive[j]>>

\* the local path job j hands to upload_to_webdav, and in hf_dataset_backup
\* to os.remove
ReturnedArchive(j) ==
    IF variant = "hf" THEN <<SharedTempDir, archive[j]>> ELSE WrittenArchive(j)

\* what the end of job j removes: its own temporary directory with all
\* that is in it (shutil.rmtree(temp_dir), the end of `with
\* tempfile.TemporaryDirectory()`), and in hf_dataset_backup the path
\* create_archive returned, if a file stands there
Released(j, path) ==
    \/ path[1] = j
    \/ variant = "hf" /\ path = ReturnedArchive(j) /\ path = WrittenArchive(j)

\* the local archive files job j wrote that stand on the local disk
LocalLeft(j) ==
    IF archive[j] = <<>> THEN {}
    ELSE {path \in {WrittenArchive(j)} : ~(pc[j] = "done" /\ Released(j, path))}

\* job j has produced the artifact of its stage and is not over
HoldsArchive(j) == pc[j] \in {"upload", "list", "delete"} /\ archive[j] # <<>>

(***************************************************************************)
(* Vocabulary of the properties.                                           *)
(***************************************************************************)
\* f holds a YYYYMMDD_HHMMSS token at position k
IsTimestampAt(f, k) ==
    /\ k + 14 <= Len(f)
    /\ \A n \in 0..14 :
          IF n = 8 THEN f[k + n] = Ch.us ELSE f[k + n] \in Digit(0)..Digit(9)

\* f was produced for the identity q: <q>_<timestamp>.<ext> or
\* <q>_backup_<timestamp>.<ext>, with q as the complete prefix of the name
ProducedFor(f, q) ==
    \/ LET k == Len(q) + 2 IN
          /\ StartsWith(f, q \o <<Ch.us>>)
          /\ IsTimestampAt(f, k)
          /\ k + 15 <= Len(f)
          /\ f[k + 15] = Ch.dot
    \/ LET k == Len(q) + 9 IN
          /\ StartsWith(f, q \o <<Ch.us>> \o StrBackup \o <<Ch.us>>)
          /\ IsTimestampAt(f, k)
          /\ k + 15 <= Len(f)
          /\ f[k + 15] = Ch.dot

\* the timestamp token of a name: the 15 characters before its first dot
TimestampOf(f) ==
    LET dotAt == CHOOSE k \in DOMAIN f :
                     f[k] = Ch.dot /\ \A q \in 1..(k - 1) : f[q] # Ch.dot
    IN SubSeq(f, dotAt - 15, dotAt - 1)

\* the prefixes a target declares: its name and, for simple_backup, the
\* alternate of the sjg/sillytavern pair
DeclaredPrefixes(j) ==
    IF variant = "project" /\ stage[j] = "primary"
    THEN possible_prefixes(tasks[j].name)
    ELSE IF variant = "project" THEN possible_prefixes(ProjectDbName(tasks[j]))
    ELSE {tasks[j].name}

\* the extensions the cleanup of job j's stage allows
AllowedExts(j) ==
    IF variant = "hf" THEN {ExtZip}
    ELSE IF variant = "db" \/ stage[j] = "db" THEN DbCleanupExts
    ELSE ProjectCleanupExts

\* the k smallest names of m in the order of str
Smallest(m, k) == {f \in m : Cardinality({g \in m : StrLess(g, f)}) < k}

\* the larger of two integers
Max(x, y) == IF x >= y THEN x ELSE y

\* the smaller of two integers
Min(x, y) == IF x <= y THEN x ELSE y

\* job j's cleanup_old_backups returns in this step without an exception
CleanupReturns(j) ==
    /\ pc[j] \in {"list", "delete"}
    /\ pc'[j] = "db_produce" \/ result'[j] = "ok"

\* job j's list call of cleanup_old_backups succeeds in this step
ListReturns(j) ==
    /\ pc[j] = "list"
    /\ pc'[j] \in {"delete", "db_produce"} \/ result'[j] = "ok"

(***************************************************************************)
(* C1. Retention bound: after a job that reports success, the number of    *)
(* names at its destination that belong to its target (the target prefix,  *)
(* an extension the job produces) is at most max_backups, for every        *)
(* producer variant, database type 'other' included. Stated here for the   *)
(* runs of one db_backup.py job.                                           *)
(***************************************************************************)
C1_RetentionBound ==
    (variant = "db" /\ Len(tasks) = 1 /\ max_backups >= 1 /\ result[1] = "ok")
    => Cardinality({f \in store[DestPath(variant, tasks[1])] :
                       /\ ProducedFor(f, tasks[1].name)
                       /\ EndsWith(f, DumpExt(tasks[1].db_type))}) <= max_backups

(***************************************************************************)
(* C2. Cross-target safety: the cleanup of a job for target A never        *)
(* deletes a name that was produced for another target B stored at the     *)
(* same destination, also when A is a string prefix of B.                  *)
(***************************************************************************)
C2_CrossTargetSafety ==
    \A j \in Jobs : \A e \in deleted[j] :
        \E q \in DeclaredPrefixes(j) : ProducedFor(e[2], q)

(***************************************************************************)
(* C3. Matching predicate: a listed name is in backup_files iff one of the *)
(* target's declared prefixes is its complete name prefix and it ends with *)
(* an allowed extension; foobar_<timestamp>.zip is not matched for the     *)
(* target foo. Stated here for hf_dataset_backup.py.                       *)
(***************************************************************************)
C3_MatchingPredicate ==
    [][\A j \in Jobs :
          (variant = "hf" /\ ListReturns(j))
          => Range(backup_files'[j]) =
                {f \in store[CurPath(j)] :
                    /\ \E q \in DeclaredPrefixes(j) : ProducedFor(f, q)
                    /\ \E x \in AllowedExts(j) : EndsWith(f, x)}]_vars

(***************************************************************************)
(* C4. Deletion selection: a cleanup whose delete calls all succeed has    *)
(* deleted exactly the max(0, |matched| - max_backups) smallest names of   *)
(* the matched set in the order of str, and nothing else, so that          *)
(* min(|matched|, max_backups) matched names remain; with one worker the   *)
(* destination holds exactly those.                                        *)
(***************************************************************************)
C4_DeletionSelection ==
    [][\A j \in Jobs :
          CleanupReturns(j)
          => LET m == Range(backup_files'[j])
                 k == Max(0, Cardinality(m) - max_backups)
                 gone == {e[2] : e \in {d \in deleted'[j] : d[1] = CurPath(j)}}
             IN /\ gone = Smallest(m, k)
                /\ Cardinality(m \ gone) = Min(Cardinality(m), max_backups)
                /\ store[CurPath(j)] \ store'[CurPath(j)] \subseteq gone
                /\ parallel = 1
                   => /\ m = Matched(j, store[CurPath(j)] \cup gone)
                      /\ store'[CurPath(j)] \cap m = m \ gone
                      /\ store'[CurPath(j)] \ m = store[CurPath(j)] \ m]_vars

\* a cleanup that had two names to delete has returned
C4_Witness ==
    \E j \in Jobs :
        /\ result[j] = "ok"
        /\ to_delete[j] = 2
        /\ ndeleted[j] = 2
        /\ Len(backup_files[j]) = max_backups + 2

\* the name carries a timestamp token before its first dot
HasTimestamp(f) ==
    \E k \in DOMAIN f :
        /\ f[k] = Ch.dot
        /\ \A q \in 1..(k - 1) : f[q] # Ch.dot
        /\ k > 15
        /\ IsTimestampAt(f, k - 15)

(***************************************************************************)
(* C5. Oldest first: whenever cleanup has deleted a matched name, every    *)
(* matched name it retains carries a timestamp at least as late, also when *)
(* the matched names carry different declared prefixes (sjg and its        *)
(* alternate sillytavern) or different name formats. Stated here for the   *)
(* project archives of simple_backup.py.                                   *)
(***************************************************************************)
C5_OldestFirst ==
    \A j \in Jobs :
        (variant = "project" /\ stage[j] = "primary")
        => \A i \in 1..ndeleted[j] :
              \A k \in (to_delete[j] + 1)..Len(backup_files[j]) :
                 (HasTimestamp(backup_files[j][i]) /\ HasTimestamp(backup_files[j][k]))
                 => ~StrLess(TimestampOf(backup_files[j][k]),
                             TimestampOf(backup_files[j][i]))

\* the stages of a job
Stages == {"primary", "db"}

\* job j has issued the call op in stage s
Issued(j, op, s) == \E ok \in BOOLEAN : [op |-> op, stage |-> s, ok |-> ok] \in calls[j]

\* job j has issued the call op in stage s and the call succeeded
Succeeded(j, op, s) == [op |-> op, stage |-> s, ok |-> TRUE] \in calls[j]

\* job j has issued the call op in stage s and the call failed
FailedCall(j, op, s) == [op |-> op, stage |-> s, ok |-> FALSE] \in calls[j]

\* the moves of a job's position the state machine allows; the database
\* stage of a project repeats Producing, Uploading, CleaningUp
JobMoves ==
    {<<"pending", "produce">>, <<"pending", "done">>,
     <<"produce", "upload">>, <<"produce", "fallback">>, <<"produce", "done">>,
     <<"fallback", "list">>, <<"fallback", "done">>,
     <<"upload", "list">>, <<"upload", "done">>,
     <<"list", "delete">>, <<"list", "db_produce">>, <<"list", "done">>,
     <<"delete", "delete">>, <<"delete", "db_produce">>, <<"delete", "done">>,
     <<"db_produce", "upload">>, <<"db_produce", "done">>}

(***************************************************************************)
(* C6, as the claim states it: a job issues list and delete calls for an   *)
(* artifact only after its own upload of that artifact has succeeded.      *)
(***************************************************************************)
C6_CleanupOnlyAfterUpload ==
    \A j \in Jobs : \A s \in Stages :
        (Issued(j, "list", s) \/ Issued(j, "delete", s)) => Succeeded(j, "upload", s)

(***************************************************************************)
(* C6. Job order: a job moves only along Pending, Producing, Uploading,    *)
(* CleaningUp, {Succeeded, Failed}, once more for the database dump of a   *)
(* project; a successful producer is always followed by the upload; no     *)
(* upload of an artifact follows the cleanup for it; list and delete are   *)
(* issued only after the job's own successful upload of the artifact, or,  *)
(* in backup_project, after the download of the project failed.            *)
(***************************************************************************)
C6_JobOrder ==
    [][\A j \in Jobs :
          /\ pc'[j] # pc[j] => <<pc[j], pc'[j]>> \in JobMoves
          /\ pc[j] = "done" => pc'[j] = "done" /\ result'[j] = result[j]
          /\ (pc[j] \in {"produce", "db_produce"}
                /\ [op |-> "produce", stage |-> stage[j], ok |-> TRUE] \in calls'[j])
             => pc'[j] = "upload"
          /\ (pc[j] = "upload" /\ pc'[j] # "upload")
             => \E ok \in BOOLEAN : Call(j, "upload", ok) \in calls'[j]
          /\ \A s \in Stages :
                /\ (Issued(j, "list", s) \/ Issued(j, "delete", s))
                   => \A ok \in BOOLEAN :
                         [op |-> "upload", stage |-> s, ok |-> ok]
                            \notin (calls'[j] \ calls[j])
                /\ \A op \in {"list", "delete"} : \A ok \in BOOLEAN :
                      [op |-> op, stage |-> s, ok |-> ok] \in calls'[j]
                      => \/ Succeeded(j, "upload", s)
                         \/ /\ variant = "project"
                            /\ s = "primary"
                            /\ FailedCall(j, "produce", s)]_vars

\* one job has produced, uploaded and deleted; the next one found an
\* earlier backup after its download failed and has cleaned up
C6_Witness ==
    \E j, k \in Jobs :
        /\ Succeeded(j, "produce", "primary")
        /\ Succeeded(j, "upload", "primary")
        /\ Succeeded(j, "delete", "primary")
        /\ result[j] = "ok"
        /\ FailedCall(k, "produce", "primary")
        /\ ~Issued(k, "upload", "primary")
        /\ Succeeded(k, "list", "primary")
        /\ stage[k] = "db"

(***************************************************************************)
(* C7, as the claim states it: if the Producer fails for a target, the job *)
(* result is failure and the job never issues an upload, list or delete.   *)
(***************************************************************************)
C7_ProducerFailureStops ==
    \A j \in Jobs :
        FailedCall(j, "produce", "primary")
        => /\ \A op \in {"upload", "list", "delete"} : \A s \in Stages :
                 ~Issued(j, op, s)
           /\ pc[j] = "done" => result[j] = "fail"

(***************************************************************************)
(* C7. Producer failure: the primary artifact of the target is never       *)
(* uploaded and the failure never reaches the orchestrator as an           *)
(* exception, so the other jobs run. In hf_dataset_backup and db_backup    *)
(* the job ends in failure without any store call. backup_project lists    *)
(* the destination when the download failed: without an earlier backup of  *)
(* the project, or when the listing fails, the job ends in failure with no *)
(* further call; with one it runs the cleanup and goes on to the database  *)
(* stage. When the archive cannot be created it ends in failure at once.   *)
(***************************************************************************)
C7_ProducerFailure ==
    /\ \A j \in Jobs :
          FailedCall(j, "produce", "primary")
          => /\ ~Issued(j, "upload", "primary")
             /\ result[j] # "raise"
             /\ variant # "project"
                => /\ pc[j] = "done"
                   /\ result[j] = "fail"
                   /\ calls[j] = {[op |-> "produce", stage |-> "primary", ok |-> FALSE]}
             /\ variant = "project"
                => \/ /\ pc[j] = "fallback" \/ (pc[j] = "done" /\ result[j] = "fail")
                      /\ calls[j] = {[op |-> "produce", stage |-> "primary", ok |-> FALSE]}
                   \/ /\ Issued(j, "list", "primary")
                      /\ (pc[j] # "done" \/ result[j] = "ok" \/ stage[j] = "db"
                            \/ Issued(j, "delete", "primary"))
                         => /\ Succeeded(j, "list", "primary")
                            /\ backup_prefix[j] \in possible_prefixes(tasks[j].name)
                            /\ ExistingBackupPrefix(store[DestPath(variant, tasks[j])],
                                                    tasks[j].name) # <<>>
    /\ mainpc = "crashed"
       => \E k \in Jobs : result[k] = "raise" /\ calls[k] = {}

\* the producer of one job has failed and the job is counted as failed;
\* another job has uploaded and is counted as successful
C7_Witness ==
    \E j, k \in Jobs :
        /\ FailedCall(j, "produce", "primary")
        /\ result[j] = "fail"
        /\ Succeeded(k, "upload", "primary")
        /\ result[k] = "ok"
        /\ collected = {j, k}
        /\ successful = 1
        /\ failed = 1

\* a list or delete call of job j's cleanup failed after the stage's upload
\* had succeeded
CleanupFailedAfterUpload(j) ==
    \E s \in Stages :
        /\ Succeeded(j, "upload", s)
        /\ FailedCall(j, "list", s) \/ FailedCall(j, "delete", s)

(***************************************************************************)
(* C8, as the claim states it: if the upload succeeded and a list or       *)
(* delete call of the cleanup then fails, the job still ends Succeeded and *)
(* the orchestrator does not count it as failed.                           *)
(***************************************************************************)
C8_CleanupFailureSwallowed ==
    \A j \in Jobs :
        (CleanupFailedAfterUpload(j) /\ pc[j] = "done")
        => /\ result[j] = "ok"
           /\ j \in collected => failed = Cardinality({k \in collected \ {j} :
                                                          result[k] # "ok"})

(***************************************************************************)
(* C8. Cleanup failure: a failed list or delete call of the cleanup is     *)
(* logged and raised again; it ends the job at once, in failure, also      *)
(* after a successful upload, and the orchestrator counts the job as       *)
(* failed.                                                                 *)
(***************************************************************************)
C8_CleanupFailureFails ==
    /\ \A j \in Jobs :
          (\E s \in Stages : FailedCall(j, "list", s) \/ FailedCall(j, "delete", s))
          => /\ pc[j] = "done"
             /\ result[j] = "fail"
    /\ failed = Cardinality({k \in collected : result[k] = "fail"})
    /\ successful = Cardinality({k \in collected : result[k] = "ok"})

\* a delete call failed after the upload and after an earlier delete had
\* succeeded; the job is counted as failed
C8_Witness ==
    \E j \in Jobs :
        /\ Succeeded(j, "upload", "primary")
        /\ Succeeded(j, "delete", "primary")
        /\ FailedCall(j, "delete", "primary")
        /\ result[j] = "fail"
        /\ j \in collected
        /\ failed >= 1

\* main() has come to its end, by returning or by an exception
RunEnded == mainpc \in {"done", "crashed"}

(***************************************************************************)
(* C9. Scheduler accounting: at the end of a run of N jobs of which K      *)
(* fail, the orchestrator has collected N results and counted K as failed  *)
(* and N - K as successful, for every concurrency limit and every          *)
(* completion order.                                                       *)
(***************************************************************************)
C9_SchedulerAccounting ==
    RunEnded
    => /\ Cardinality(collected) = Len(tasks)
       /\ successful + failed = Len(tasks)
       /\ failed = Cardinality({j \in Jobs : result[j] # "ok"})
       /\ successful = Cardinality({j \in Jobs : result[j] = "ok"})

(***************************************************************************)
(* C10. Exactly once: in every run each constructed job is started, is     *)
(* never started again once it has ended, and its result is collected,     *)
(* whether or not other jobs fail.                                         *)
(***************************************************************************)
C10_ExactlyOnce ==
    /\ RunEnded => \A j \in Jobs : pc[j] # "pending" /\ j \in collected
    /\ \A j \in collected : pc[j] = "done"

(***************************************************************************)
(* C11. Failure isolation: a job that fails for any reason, an exception   *)
(* raised while it reads its own target definition included, yields a      *)
(* failed result, and never prevents the start of a pending job of the     *)
(* run.                                                                    *)
(***************************************************************************)
C11_FailureIsolation ==
    /\ \A j \in Jobs : pc[j] = "done" => result[j] \in {"ok", "fail"}
    /\ (\E k \in Jobs : pc[k] = "pending") => mainpc # "crashed"

(***************************************************************************)
(* C12. Bounded parallelism: in every reachable state of a run with N jobs *)
(* and concurrency limit P, the number of jobs that have started and not   *)
(* yet finished is at most min(P, N).                                      *)
(***************************************************************************)
C12_BoundedParallelism ==
    Cardinality({j \in Jobs : pc[j] \notin {"pending", "done"}})
        <= Min(parallel, Len(tasks))

\* the pool has one worker, two jobs are queued, the first one is running
\* and the second one waits
C12_Witness ==
    /\ variant \in {"hf", "db"}
    /\ parallel = 1
    /\ submitted = 2
    /\ pc[1] \notin {"pending", "done"}
    /\ pc[2] = "pending"

(***************************************************************************)
(* C13. Run termination: every call returns and workers are scheduled      *)
(* fairly, so a run stops only where no step is left; where it stops,      *)
(* every job has reached Succeeded or Failed and the orchestrator has      *)
(* reported the aggregate counts: no run ends with jobs still pending.     *)
(***************************************************************************)
C13_RunTermination ==
    (~ENABLED Next)
    => /\ mainpc = "done"
       /\ \A j \in Jobs : pc[j] = "done" /\ j \in collected

(***************************************************************************)
(* C14. Exit status: when the run has ended, the exit status of the        *)
(* orchestrator process indicates success if and only if every job         *)
(* succeeded, so that backup_all reports the phase as failed if at least   *)
(* one job failed.                                                         *)
(***************************************************************************)
C14_ExitStatus ==
    RunEnded => (PhaseSucceeded <=> \A j \in Jobs : result[j] = "ok")

\* the names job j's cleanup has deleted at the destination of its stage,
\* this step included
GoneAfter(j) == {e[2] : e \in {d \in deleted'[j] : d[1] = CurPath(j)}}

(***************************************************************************)
(* C15. Retention idempotence: when a cleanup whose calls all succeeded    *)
(* returns, the retention step applied once more to the listing it leaves  *)
(* (the listing it read, less the names it deleted, no upload in between)  *)
(* matches at most max_backups names, so it selects no name and issues no  *)
(* delete call.                                                            *)
(***************************************************************************)
C15_RetentionIdempotence ==
    [][\A j \in Jobs :
          CleanupReturns(j)
          => LET m == Range(backup_files'[j])
                 left == m \ GoneAfter(j)
                 again == Matched(j, left)
             IN /\ again = left
                /\ Cardinality(again) <= max_backups
                /\ Max(0, files_to_delete(Cardinality(again), max_backups)) = 0
                /\ parallel = 1
                   => Cardinality(Matched(j, store'[CurPath(j)])) <= max_backups]_vars

\* a cleanup that deleted has returned and left max_backups matched names
C15_Witness ==
    \E j \in Jobs :
        /\ result[j] = "ok"
        /\ ndeleted[j] >= 1
        /\ ndeleted[j] = to_delete[j]
        /\ Cardinality(Matched(j, store[CurPath(j)])) = max_backups
        /\ max_backups = 2

\* job j takes a step of its cleanup
CleanupStep(j) ==
    /\ pc[j] \in {"list", "delete"}
    /\ pc'[j] # pc[j] \/ ndeleted'[j] # ndeleted[j]

(***************************************************************************)
(* C16. No mutation within the limit: when at most max_backups names of    *)
(* the listing are matched, cleanup issues no delete call and leaves the   *)
(* remote listing exactly as it found it; in every case a step of cleanup  *)
(* adds no name and removes only matched names of its own destination.     *)
(***************************************************************************)
C16_NoMutationWithinLimit ==
    [][\A j \in Jobs :
          CleanupStep(j)
          => /\ (pc[j] = "list"
                   /\ Cardinality(Matched(j, store[CurPath(j)])) <= max_backups)
                => /\ pc'[j] # "delete"
                   /\ store' = store
                   /\ deleted' = deleted
                   /\ \A ok \in BOOLEAN : Call(j, "delete", ok) \notin calls'[j] \ calls[j]
             /\ \A p \in Paths :
                   /\ store'[p] \subseteq store[p]
                   /\ p # CurPath(j) => store'[p] = store[p]
                   /\ \A f \in store[p] \ store'[p] :
                         /\ f \in Range(backup_files[j])
                         /\ Matched(j, {f}) = {f}]_vars

\* a cleanup found exactly max_backups matched names beside a name of
\* another target, and returned
C16_Witness ==
    \E j \in Jobs :
        /\ result[j] = "ok"
        /\ Succeeded(j, "list", "primary")
        /\ ~Issued(j, "delete", "primary")
        /\ Len(backup_files[j]) = max_backups
        /\ store[CurPath(j)] \ Range(backup_files[j]) # {}

\* the target of job j declares an associated database
DeclaresDb(j) == variant = "project" /\ tasks[j].db_type # "none"

\* the database types backup_project has a producer for
SupportedDbTypes == {"mysql", "postgresql", "mongodb", "sqlite"}

(***************************************************************************)
(* C17, as the claim states it: a job with an associated database reports  *)
(* failure when the database producer fails, and reports success only when *)
(* both the primary and the secondary stage succeeded.                     *)
(***************************************************************************)
C17_BothStagesSucceeded ==
    \A j \in Jobs :
        DeclaresDb(j)
        => /\ FailedCall(j, "produce", "db") => result[j] = "fail"
           /\ result[j] = "ok"
              => /\ Succeeded(j, "produce", "primary")
                 /\ Succeeded(j, "upload", "primary")
                 /\ Succeeded(j, "produce", "db")
                 /\ Succeeded(j, "upload", "db")

(***************************************************************************)
(* C17. Secondary failure is fatal: for a target with an associated        *)
(* database, if the database producer fails or the type is unsupported,    *)
(* the job ends in failure with no call for the dump, although the primary *)
(* stage was completed. The job reports success only when the dump was     *)
(* produced, uploaded and cleaned up and the primary stage either uploaded *)
(* and cleaned up the archive or, after a failed download, found an        *)
(* earlier backup of the project and cleaned up.                           *)
(***************************************************************************)
C17_SecondaryFailureFatal ==
    \A j \in Jobs :
        DeclaresDb(j)
        => /\ FailedCall(j, "produce", "db")
              => /\ pc[j] = "done"
                 /\ result[j] = "fail"
                 /\ \A op \in {"upload", "list", "delete"} : ~Issued(j, op, "db")
           /\ (tasks[j].db_type \notin SupportedDbTypes /\ stage[j] = "db"
                 /\ pc[j] # "db_produce")
              => FailedCall(j, "produce", "db")
           /\ stage[j] = "db"
              => /\ Succeeded(j, "list", "primary")
                 /\ \/ Succeeded(j, "produce", "primary") /\ Succeeded(j, "upload", "primary")
                    \/ FailedCall(j, "produce", "primary") /\ ~Issued(j, "upload", "primary")
           /\ result[j] = "ok"
              => /\ stage[j] = "db"
                 /\ Succeeded(j, "produce", "db")
                 /\ Succeeded(j, "upload", "db")
                 /\ Succeeded(j, "list", "db")
                 /\ ~FailedCall(j, "list", "db") /\ ~FailedCall(j, "delete", "db")

\* the archive of a project was uploaded and cleaned up, the dump of its
\* database failed, and the job is counted as failed
C17_Witness ==
    \E j \in Jobs :
        /\ DeclaresDb(j)
        /\ Succeeded(j, "upload", "primary")
        /\ Succeeded(j, "list", "primary")
        /\ tasks[j].db_type \in SupportedDbTypes
        /\ FailedCall(j, "produce", "db")
        /\ result[j] = "fail"
        /\ j \in collected
        /\ failed >= 1

\* the target definition lacks a field its job needs: the database type
\* (multi_db_backup), the token or the destination path (simple_backup)
LacksRequiredField(v, task) ==
    IF v = "db" THEN task.db_type = "none"
    ELSE IF v = "project" THEN ~task.has_token \/ ~task.has_path
    ELSE FALSE

(***************************************************************************)
(* C18. Configuration failure precedes scheduling: if a target definition  *)
(* selected for the run lacks a required field, no Producer, upload, list  *)
(* or delete call is issued for any target of that run.                    *)
(***************************************************************************)
C18_ConfigFailureFirst ==
    (\E j \in Jobs : LacksRequiredField(variant, tasks[j]))
    => \A k \in Jobs : calls[k] = {}

\* the directories on the way to path, below the root, path included
Components(path) ==
    {SubSeq(path, 1, k) : k \in {i \in 2..Len(path) : path[i] = Ch.slash}}

\* the positions of uplog that hold a call of op
CallsOf(op) == {i \in DOMAIN uplog : uplog[i].op = op}

\* upload_to_webdav has returned or raised
UploadEnded == upc \in {"done", "raised"}

\* C19: destination path creation.  When the destination or an ancestor of
\* it is missing, the job creates every missing component, parents before
\* children, and every mkdir has returned before upload_sync is called, at
\* any depth: the mkdir calls come in parent-then-child order, each missing
\* component has had its mkdir when the upload is issued, and an
\* upload_to_webdav in which no store call failed for a reason of the
\* store's own ends with the whole path present and the file transferred.
C19_PathCreation ==
    LET missing == Components(remote_path) \ dirs0 IN
    /\ \A i \in CallsOf("mkdir") : \A k \in CallsOf("mkdir") :
          i < k => Len(uplog[i].path) < Len(uplog[k].path)
    /\ \A u \in CallsOf("upload") : \A d \in missing :
          \E i \in CallsOf("mkdir") : i < u /\ uplog[i].path = d
    /\ (UploadEnded /\ ~faulted) =>
          /\ upc = "done"
          /\ Components(remote_path) \subseteq dirs

\* C20: a pre-existing path is a no-op.  When every component of the
\* destination path exists before upload_to_webdav, no mkdir is called and
\* the directories of the store are what they were, up to and including
\* the upload.
C20_PreExistingNoOp ==
    Components(remote_path) \subseteq dirs0 =>
        /\ CallsOf("mkdir") = {}
        /\ dirs = dirs0

\* a path of two components, all present, was checked and the file uploaded
C20_Witness ==
    /\ upc = "done"
    /\ Cardinality(Components(remote_path)) >= 2
    /\ Components(remote_path) \subseteq dirs0
    /\ CallsOf("check") # {}
    /\ CallsOf("upload") # {}

\* main() has read every section
BuildEnded == section_no = Len(config) + 1

\* the targets the configuration defines
DefinedTargets ==
    IF variant = "hf"
    THEN UNION {{Task(config[i].name, config[i].datasets[k]) :
                    k \in DOMAIN config[i].datasets} : i \in DOMAIN config}
    ELSE {Task(<<>>, config[i].name) : i \in DOMAIN config}

\* the part of a qualified name before its first '/', and the part after it
FirstSlash(q) ==
    CHOOSE i \in DOMAIN q : q[i] = Ch.slash /\ \A k \in 1..(i - 1) : q[k] # Ch.slash
AccountOf(q) == SubSeq(q, 1, FirstSlash(q) - 1)
ShortNameOf(q) == SubSeq(q, FirstSlash(q) + 1, Len(q))

\* the target passes the selectors of the command line: the account
\* selector names its account, the target selector names it, in full or
\* (a dataset) by its short name
PassesFilters(t) ==
    /\ \/ args.account = <<>>
       \/ variant = "hf" /\ t.account = args.account
       \/ variant = "project" /\ AccountOf(t.target) = args.account
    /\ \/ args.target = <<>>
       \/ t.target = args.target
       \/ variant = "hf" /\ ShortNameOf(t.target) = args.target

\* the number of tasks of the list that are for the target t
JobsFor(t) == Cardinality({i \in DOMAIN backup_tasks : backup_tasks[i] = t})

\* C21: orchestrator job construction.  When main() has read every
\* section, the task list holds exactly one task for every defined target
\* that passes the selectors of the command line and none for any other
\* target; without selectors every defined target has exactly one task.
C21_JobConstruction ==
    BuildEnded =>
        \A t \in DefinedTargets \cup Range(backup_tasks) :
            JobsFor(t) = IF t \in DefinedTargets /\ PassesFilters(t) THEN 1 ELSE 0

\* job j's clean call of this step succeeds
DeleteReturns(j) == pc[j] = "delete" /\ ndeleted'[j] = ndeleted[j] + 1

Listed(j) ==
    /\ pc[j] = "list"
    /\ Call(j, "list", TRUE) \in calls'[j] \ calls[j]

\* C23: empty listing.  When the list call of a cleanup returns an empty
\* listing (max_backups >= 1), the cleanup selects nothing for deletion,
\* goes on to no delete call and returns without an error.
C23_EmptyListing ==
    [][\A j \in Jobs :
          (Listed(j) /\ store[CurPath(j)] = {} /\ max_backups >= 1)
          => /\ backup_files'[j] = <<>>
             /\ to_delete'[j] = 0
             /\ pc'[j] # "delete"
             /\ deleted'[j] = deleted[j]
             /\ CleanupReturns(j)]_vars

\* a cleanup returned from an empty destination
C23_Witness ==
    \E j \in Jobs :
        /\ store[CurPath(j)] = {}
        /\ max_backups >= 1
        /\ Call(j, "list", TRUE) \in calls[j]
        /\ ~\E ok \in BOOLEAN : Call(j, "delete", ok) \in calls[j]
        /\ result[j] = "ok"

\* C24: zero jobs.  When the task list is empty, main() returns at once:
\* it opens no pool and no loop, submits and collects nothing, counts no
\* result, and no Producer or store call is made: the store and the clock
\* stay as they are.
C24_ZeroJobs ==
    [][Len(tasks) = 0 =>
          /\ mainpc' = "done"
          /\ submitted' = 0
          /\ collected' = {}
          /\ successful' = 0
          /\ failed' = 0
          /\ calls' = <<>>
          /\ store' = store
          /\ clock' = clock]_vars

\* main() has returned from a run without tasks
C24_Witness ==
    /\ Len(tasks) = 0
    /\ mainpc = "done"
    /\ collected = {}

\* job j has ended without success
EndedFailed(j) == result[j] \in {"fail", "raise"}

\* C25: no retry.  A job that has ended Failed stays ended: it is not
\* queued or run again, its result stands, and no further Producer, store
\* or delete call is made for it in the run.
C25_NoRetry ==
    [][\A j \in Jobs :
          EndedFailed(j) =>
             /\ pc[j] = "done"
             /\ pc'[j] = "done"
             /\ result'[j] = result[j]
             /\ calls'[j] = calls[j]
             /\ deleted'[j] = deleted[j]
             /\ submitted' >= submitted
             /\ submitted' <= Len(tasks)]_vars

\* the first job failed at its upload and the run went on to its end with
\* the second job
C25_Witness ==
    /\ Len(tasks) = 2
    /\ result[1] = "fail"
    /\ FailedCall(1, "upload", "primary")
    /\ result[2] = "ok"
    /\ mainpc = "done"

\* the cleanup of the dump of job j's database, with max-keep count keep:
\* what its list step and its delete steps do
SecondaryCleanup(j, keep) ==
    /\ (Listed(j) /\ stage[j] = "db") =>
          LET m == simple_backup_files(store[DbPath(variant, tasks[j])],
                                       ProjectDbName(tasks[j]), TRUE, FALSE)
          IN /\ Range(backup_files'[j]) = m
             /\ pc'[j] = "delete" => to_delete'[j] = Cardinality(m) - keep
             /\ pc'[j] # "delete" => Cardinality(m) <= keep
    /\ (pc[j] \in {"list", "delete"} /\ stage[j] = "db") =>
          \A d \in Paths \ {DbPath(variant, tasks[j])} : store'[d] = store[d]

\* C26 as stated: the cleanup of the database dump lists only the
\* secondary destination, matches by the database name, and keeps the
\* count of the secondary descriptor, not the max_backups of the project.
C26_SecondaryOwnMaxKeep ==
    [][\A j \in Jobs : SecondaryCleanup(j, db_max_backups(tasks[j]))]_vars

\* C26, amended: the cleanup of the database dump lists only the
\* secondary destination and matches by the database name; its count is
\* the max_backups of the project, the one the cleanup of the archive uses.
C26_SecondaryRetention ==
    [][\A j \in Jobs : SecondaryCleanup(j, max_backups)]_vars

\* the cleanup of the dump deleted an older dump and the project succeeded
C26_Witness ==
    \E j \in Jobs :
        /\ stage[j] = "db"
        /\ ndeleted[j] >= 1
        /\ \E e \in deleted[j] : e[1] = DbPath(variant, tasks[j])
        /\ result[j] = "ok"

\* job j moves in this step
Moves(j) == pc'[j] # pc[j] \/ ndeleted'[j] # ndeleted[j]

\* C27: per-target deletion counts in a batch.  In a batch with pairwise
\* distinct destinations, for every --parallel and every interleaving,
\* only the job of a destination changes it; a cleanup that runs to its
\* end has matched the m names of its own destination and has issued
\* max(0, m - max_backups) clean calls, whatever the other jobs did; a
\* cleanup that a failing clean call ended has deleted fewer.
C27_DeletionCounts ==
    [][\A j \in Jobs :
          LET d == DestPath(variant, tasks[j])
              k == Max(0, Len(backup_files'[j]) - max_backups)
          IN /\ ~Moves(j) => store'[d] = store[d]
             /\ CleanupReturns(j) =>
                   /\ ndeleted'[j] = k
                   /\ Cardinality(deleted'[j]) = k
                   /\ \A e \in deleted'[j] : e[1] = d
                   /\ Range(backup_files'[j]) = Matched(j, store'[d]) \cup GoneAfter(j)
             /\ (pc[j] = "delete" /\ result'[j] = "fail") => ndeleted'[j] < k]_vars

\* two jobs ran side by side, each deleted old names at its own
\* destination, and the run ended
C27_Witness ==
    /\ parallel = 2
    /\ Len(tasks) >= 2
    /\ \E i \in Jobs : \E j \in Jobs :
          /\ i # j
          /\ result[i] = "ok" /\ ndeleted[i] = 2
          /\ result[j] = "ok" /\ ndeleted[j] = 1
    /\ mainpc = "done"

\* C28: the new artifact is safe.  For every max_backups >= 1 and every
\* initial listing, no cleanup deletes the artifact its own job has just
\* uploaded to the destination it cleans, also when older artifacts stand
\* there under the alternate prefix or in the other name format.
C28_NewArtifactSafe ==
    \A j \in Jobs :
        Succeeded(j, "upload", stage[j])
        => <<CurPath(j), archive[j]>> \notin deleted[j]

\* C29: upload/cleanup naming consistency.  For every producer variant,
\* database type 'other' and the archives taken over from the source
\* repository included, the name a job has uploaded passes the filter of
\* the job's own cleanup: listed alone, it is in the matched set.
C29_NamingConsistency ==
    \A j \in Jobs :
        Succeeded(j, "upload", stage[j]) => archive[j] \in Matched(j, {archive[j]})

\* f is an artifact of the target of job j: the archive the job uploaded,
\* or a name that begins with the target's name or its alternate
ArtifactOf(j, f) ==
    \/ stage[j] = "primary" /\ f = archive[j]
    \/ \E q \in (IF variant = "project" THEN possible_prefixes(tasks[j].name)
                 ELSE {tasks[j].name}) : StartsWith(f, q)

\* C30: a successful job leaves a backup.  For every integer max_backups
\* the command line and the configuration accept, 0 and negative numbers
\* included, when a job has reported success an artifact of its target
\* stands at its destination.
C30_SuccessLeavesBackup ==
    \A j \in Jobs :
        result[j] = "ok"
        => \E f \in store[DestPath(variant, tasks[j])] : ArtifactOf(j, f)

\* the names the cleanup of job j's current stage selected for deletion
Selected(j) == {backup_files[j][i] : i \in 1..Min(to_delete[j], Len(backup_files[j]))}

\* the names the cleanup of job j's current stage called delete for: the
\* ones it deleted and, after a failed call, the one the call was for
Attempted(j) ==
    {backup_files[j][i] :
        i \in 1..Min(Len(backup_files[j]),
                     ndeleted[j] + (IF FailedCall(j, "delete", stage[j]) THEN 1 ELSE 0))}

(***************************************************************************)
(* C31, as the claim states it: best-effort cleanup continues.  When the   *)
(* delete call for one selected stale name has failed, the cleanup has     *)
(* called delete for every other selected name by the time the job ends.   *)
(***************************************************************************)
C31_CleanupContinues ==
    \A j \in Jobs :
        (pc[j] = "done" /\ FailedCall(j, "delete", stage[j]))
        => Selected(j) \subseteq Attempted(j)

(***************************************************************************)
(* C31. A failed delete call ends the cleanup: the exception leaves the    *)
(* loop, so the job is over and has failed, the names deleted are those    *)
(* before the failed one in the sorted list, and the selected names after  *)
(* it were not called for and are still at the destination.                *)
(***************************************************************************)
C31_FailedDeleteEndsCleanup ==
    \A j \in Jobs :
        FailedCall(j, "delete", stage[j])
        => /\ pc[j] = "done"
           /\ result[j] = "fail"
           /\ ndeleted[j] < to_delete[j]
           /\ {f \in Selected(j) : <<CurPath(j), f>> \in deleted[j]}
                 = {backup_files[j][i] : i \in 1..ndeleted[j]}
           /\ parallel = 1 /\ Len(tasks) = 1
                 => (Selected(j) \ Attempted(j)) \subseteq store[CurPath(j)]

\* the first of two selected names could not be deleted: the second one was
\* never called for and stands at the destination
C31_Witness ==
    \E j \in Jobs :
        /\ pc[j] = "done"
        /\ FailedCall(j, "delete", stage[j])
        /\ ndeleted[j] = 0
        /\ to_delete[j] >= 2
        /\ backup_files[j][2] \in store[CurPath(j)]

\* the directory stage s of job j uploads to and cleans
StagePath(j, s) ==
    IF s = "db" THEN DbPath(variant, tasks[j]) ELSE DestPath(variant, tasks[j])

SameArtifacts(j, k) ==
    /\ j # k
    /\ tasks[j].name = tasks[k].name
    /\ tasks[j].db_type = tasks[k].db_type
    /\ DestPath(variant, tasks[j]) = DestPath(variant, tasks[k])

\* the keep largest names of m
Largest(m, keep) == {f \in m : Cardinality({g \in m : StrLess(f, g)}) < keep}

(***************************************************************************)
(* C33. Concurrent jobs on the same artifacts: when two jobs whose targets *)
(* match the same remote names share a destination and both have finished  *)
(* successfully, whatever the interleaving of their upload, list and       *)
(* delete calls, at most max_backups matched names are left, and no name   *)
(* either job deleted is among the max_backups largest matched names that  *)
(* are present.                                                            *)
(***************************************************************************)
C33_ConcurrentSameArtifacts ==
    \A j \in Jobs : \A k \in Jobs :
        (SameArtifacts(j, k) /\ result[j] = "ok" /\ result[k] = "ok")
        => LET m == Matched(j, store[DestPath(variant, tasks[j])]) IN
           /\ Cardinality(m) <= max_backups
           /\ \A d \in deleted[j] \cup deleted[k] : d[2] \notin Largest(m, max_backups)

\* both jobs succeeded after their cleanups had interleaved: each of them
\* called delete for the same name
C33_Witness ==
    \E j \in Jobs : \E k \in Jobs :
        /\ SameArtifacts(j, k)
        /\ result[j] = "ok"
        /\ result[k] = "ok"
        /\ deleted[j] \cap deleted[k] # {}
        /\ archive[j] # archive[k]

(***************************************************************************)
(* C34. No shared local artifact between jobs: two jobs that are running   *)
(* at the same time, each with the artifact of its stage produced, do not  *)
(* use the same local archive file; in particular not two jobs for         *)
(* datasets with the same short name that archive in the same second.      *)
(***************************************************************************)
C34_NoSharedLocalArtifact ==
    \A j \in Jobs : \A k \in Jobs \ {j} :
        (HoldsArchive(j) /\ HoldsArchive(k))
        => /\ WrittenArchive(j) # WrittenArchive(k)
           /\ ReturnedArchive(j) # ReturnedArchive(k)

\* the names the cleanup of job j's current stage has deleted
DeletedInStage(j) == {f \in Range(backup_files[j]) : <<CurPath(j), f>> \in deleted[j]}

(***************************************************************************)
(* C35. Deletion order: the cleanup calls delete in the ascending order of *)
(* the matched names.  In every state after the listing of a cleanup, the  *)
(* cleanup aborted by a failed delete included, the matched list is in     *)
(* ascending order, the names deleted are its first ndeleted names, and    *)
(* every matched name not deleted is larger than every deleted one.        *)
(***************************************************************************)
C35_DeletionOrder ==
    \A j \in Jobs :
        Succeeded(j, "list", stage[j])
        => /\ ndeleted[j] <= Len(backup_files[j])
           /\ \A i \in DOMAIN backup_files[j] : \A k \in DOMAIN backup_files[j] :
                 i < k => StrLess(backup_files[j][i], backup_files[j][k])
           /\ DeletedInStage(j) = {backup_files[j][i] : i \in 1..ndeleted[j]}
           /\ \A f \in DeletedInStage(j) :
                 \A g \in Range(backup_files[j]) \ DeletedInStage(j) : StrLess(f, g)

\* a cleanup aborted by its second delete call: the first name of three is
\* deleted, the two larger ones are not
C35_Witness ==
    \E j \in Jobs :
        /\ FailedCall(j, "delete", stage[j])
        /\ pc[j] = "done"
        /\ ndeleted[j] = 1
        /\ Len(backup_files[j]) >= 3
        /\ DeletedInStage(j) = {backup_files[j][1]}

\* the children of the script that are launched and have not exited
Unfinished == {i \in DOMAIN children : children[i].status = "running"}

\* the scripts backup_all launched, subprocess.run having raised or not
Executed == {children[i].script : i \in DOMAIN children}

\* a phase that was executed reported failure
SomePhaseFailed == \E i \in DOMAIN children : children[i].returncode # 0

(***************************************************************************)
(* C36. Top-level phases of backup_all: the dataset phase and the database *)
(* phase run one after the other, never at the same time; the database     *)
(* phase runs whatever the dataset phase gave; the process exits non-zero  *)
(* iff a phase that was executed reported failure; with --hf-only and      *)
(* --db-only together no phase runs and the process exits 0.               *)
(***************************************************************************)
C36_TopLevelPhases ==
    /\ Cardinality(Unfinished) <= 1
    /\ \A i \in DOMAIN children : \A k \in DOMAIN children :
          i < k => /\ children[i].script = HfScript
                   /\ children[k].script = DbScript
                   /\ children[i].status # "running"
    /\ allpc \in {"db_wait", "report", "exited"}
          => /\ HfScript \in Executed <=> ~all_args.db_only
             /\ DbScript \in Executed <=> ~all_args.hf_only
    /\ allpc = "exited"
          => /\ all_exit \in {0, 1}
             /\ all_exit # 0 <=> SomePhaseFailed
             /\ Unfinished = {}
    /\ (allpc = "exited" /\ all_args.hf_only /\ all_args.db_only)
          => children = <<>> /\ all_exit = 0
    /\ allpc # "exited" => all_exit = -1

\* the dataset phase failed, the database phase ran after it and succeeded,
\* and the process exited 1
C36_Witness ==
    /\ allpc = "exited"
    /\ Len(children) = 2
    /\ children[1] = Child(HfScript, all_args.hf_parallel, "exited", 1)
    /\ children[2] = Child(DbScript, all_args.db_parallel, "exited", 0)
    /\ all_exit = 1

\* the primary stage of job j has finished without failure: the archive
\* was uploaded and the cleanup returned, or the download failed, a backup
\* of the project was found at the destination and the cleanup returned
PrimaryFinished(j) ==
    /\ \/ Succeeded(j, "produce", "primary") /\ Succeeded(j, "upload", "primary")
       \/ FailedCall(j, "produce", "primary") /\ ~Issued(j, "upload", "primary")
    /\ Succeeded(j, "list", "primary")
    /\ ~FailedCall(j, "upload", "primary")
    /\ ~FailedCall(j, "list", "primary")
    /\ ~FailedCall(j, "delete", "primary")

\* the calls job j has issued for its database
DbCalls(j) == {c \in calls[j] : c.stage = "db"}

(***************************************************************************)
(* C37. Secondary stage ordering: a job comes to its database only when    *)
(* the target declares one and the primary stage has finished without      *)
(* failure; a job whose primary stage failed has issued no dump, upload,   *)
(* list or delete call for the database.                                   *)
(***************************************************************************)
C37_SecondaryStageOrdering ==
    \A j \in Jobs :
        /\ (stage[j] = "db" \/ DbCalls(j) # {})
              => /\ variant = "project"
                 /\ tasks[j].db_type # "none"
                 /\ PrimaryFinished(j)
        /\ (pc[j] = "done" /\ ~PrimaryFinished(j))
              => /\ result[j] # "ok"
                 /\ stage[j] = "primary"
                 /\ DbCalls(j) = {}

\* the download failed, a backup was found at the destination, the cleanup
\* returned, and the database was then dumped
C37_Witness ==
    \E j \in Jobs :
        /\ FailedCall(j, "produce", "primary")
        /\ Succeeded(j, "list", "primary")
        /\ Succeeded(j, "produce", "db")
        /\ Succeeded(j, "upload", "db")

(***************************************************************************)
(* C38. Local resource release: when a job is over, whether it succeeded   *)
(* or its producer, upload or cleanup failed, the local archive file it    *)
(* wrote is removed.                                                       *)
(***************************************************************************)
C38_LocalResourceRelease ==
    \A j \in Jobs : pc[j] = "done" => LocalLeft(j) = {}
====
